---- MODULE Spec2Model ----
(***************************************************************************)
(* DevSprint backend (src/backend/main.py): the progress-tracking and      *)
(* simulation engine.  Tables are modelled as follows.                     *)
(*   sprints  : sequence of rows, the row's id is its index (no sprint is  *)
(*              ever deleted by the code).                                 *)
(*   stories  : sequence of rows, id = index (no story is ever deleted).   *)
(*   tasks    : sequence of rows, id = index; a deleted task leaves the    *)
(*              row Tombstone behind, because ids are never reused.        *)
(*   github_links, snapshots : bags of rows (the row id plays no role, so  *)
(*              two rows with equal columns are two copies in the bag).    *)
(* Dates are day numbers.  Columns that no computation reads (name, goal,  *)
(* title, description, the URLs and hashes of a link) are left out of the  *)
(* rows.                                                                   *)
(***************************************************************************)
EXTENDS Integers, Sequences, FiniteSets, Bags, TLC

VARIABLES
    sprints,                 \* table sprints
    stories,                 \* table user_stories
    tasks,                   \* table tasks
    github_links,            \* table github_links
    snapshots,               \* table burndown_snapshots
    SIMULATION_OFFSET_DAYS,  \* the process-wide day offset
    date_today,              \* date.today(), the real calendar day
    captures,                \* the calls of capture_burndown_snapshots in progress
    advances,                \* the calls of simulate_advance_days in progress
    last                     \* the last request served and its response

vars == <<sprints, stories, tasks, github_links, snapshots,
          SIMULATION_OFFSET_DAYS, date_today, captures, advances, last>>

db == <<sprints, stories, tasks, github_links, snapshots>>

(***************************************************************************)
(* Bounds of the model.                                                    *)
(***************************************************************************)
MaxTasks == 2        \* task rows ever inserted
MaxAdvance == 2      \* largest days argument of advance_days
MaxOffset == 2       \* advance_days is not taken beyond this offset
MaxRealDay == 1      \* midnights that pass
MaxStories == 1      \* story rows create_story inserts
MaxLinks == 2        \* link rows the webhook inserts
MaxSprints == 2      \* sprint rows create_sprint inserts
MaxDate == 2         \* latest day a sprint request names

(***************************************************************************)
(* Enumerations.                                                           *)
(***************************************************************************)
SprintStatus == {"ACTIVE", "CLOSED"}
TaskStatus == {"TODO", "IN_PROGRESS", "CODE_REVIEW", "DONE"}
UserStoryStatus == {"PLANNED", "ACTIVE", "DONE"}

\* A status column is nullable, and a PATCH whose body carries "status": null
\* stores NULL in it.
NULL == "NULL"

Tombstone ==
    [story_id |-> 0, status |-> "DELETED", is_tech_debt |-> FALSE,
     story_points |-> 0, assignee |-> NULL]

Ids(table) == 1..Len(table)
LiveTasks(tk) == {i \in Ids(tk) : tk[i] # Tombstone}

RECURSIVE SumOver(_, _)
SumOver(f, S) ==
    IF S = {} THEN 0
    ELSE LET x == CHOOSE y \in S : TRUE IN f[x] + SumOver(f, S \ {x})

get_today_at(today, offset) == today + offset

get_today == get_today_at(date_today, SIMULATION_OFFSET_DAYS)

(***************************************************************************)
(* Status rollup.                                                          *)
(***************************************************************************)
story_tasks(tk, story_id) == {i \in LiveTasks(tk) : tk[i].story_id = story_id}

sync_story_status_any_done(st, tk, story_id) ==
    LET ts == story_tasks(tk, story_id) IN
    IF ts = {} THEN st
    ELSE IF \E i \in ts : tk[i].status = "DONE"
         THEN [st EXCEPT ![story_id].status = "DONE"]
    ELSE IF \E i \in ts : tk[i].status \in {"IN_PROGRESS", "CODE_REVIEW"}
         THEN [st EXCEPT ![story_id].status = "ACTIVE"]
    ELSE [st EXCEPT ![story_id].status = "PLANNED"]

sync_story_status_resets_empty(st, tk, story_id) ==
    LET ts == story_tasks(tk, story_id) IN
    IF \A i \in ts : tk[i].status = "DONE"
         THEN [st EXCEPT ![story_id].status = "DONE"]
    ELSE IF \E i \in ts : tk[i].status \in {"IN_PROGRESS", "CODE_REVIEW"}
         THEN [st EXCEPT ![story_id].status = "ACTIVE"]
    ELSE [st EXCEPT ![story_id].status = "PLANNED"]

sync_story_status(st, tk, story_id) ==
    LET ts == story_tasks(tk, story_id) IN
    IF ts = {} THEN st
    ELSE IF \A i \in ts : tk[i].status = "DONE"
         THEN [st EXCEPT ![story_id].status = "DONE"]
    ELSE IF \E i \in ts : tk[i].status \in {"IN_PROGRESS", "CODE_REVIEW"}
         THEN [st EXCEPT ![story_id].status = "ACTIVE"]
    ELSE [st EXCEPT ![story_id].status = "PLANNED"]

(***************************************************************************)
(* Snapshot recorder.                                                      *)
(***************************************************************************)
\* WHERE sprint_id = :id AND status != 'DONE': a row whose status is NULL does
\* not satisfy the comparison.
calculate_remaining_points(st, sprint_id) ==
    LET S == {i \in Ids(st) : /\ st[i].sprint_id = sprint_id
                              /\ st[i].status # NULL
                              /\ st[i].status # "DONE"}
    IN  SumOver([i \in S |-> st[i].story_points], S)

SnapshotRows(snaps, sprint_id, d) ==
    {r \in BagToSet(snaps) : r.sprint_id = sprint_id /\ r.snapshot_date = d}

NewSnapshot(sprint_id, d, remaining) ==
    [sprint_id |-> sprint_id, snapshot_date |-> d, remaining_points |-> remaining]

\* The body of the loop over the active sprints: the set of tables it can
\* leave (.first() has no ORDER BY, so any matching row may be the one read).
upsert_snapshot_always_inserts(snaps, sprint_id, d, remaining) ==
    {snaps (+) SetToBag({NewSnapshot(sprint_id, d, remaining)})}

upsert_snapshot(snaps, sprint_id, d, remaining) ==
    IF SnapshotRows(snaps, sprint_id, d) # {}
    THEN {(snaps (-) SetToBag({r}))
             (+) SetToBag({[r EXCEPT !.remaining_points = remaining]}) :
          r \in SnapshotRows(snaps, sprint_id, d)}
    ELSE {snaps (+) SetToBag({NewSnapshot(sprint_id, d, remaining)})}

RECURSIVE capture_from_all_sprints(_, _, _, _, _)
capture_from_all_sprints(sp, st, S, target_date, i) ==
    IF i > Len(sp) THEN S
    ELSE capture_from_all_sprints(sp, st,
            UNION {upsert_snapshot(s, i, target_date,
                                   calculate_remaining_points(st, i)) : s \in S},
            target_date, i + 1)

RECURSIVE capture_from(_, _, _, _, _)
capture_from(sp, st, S, target_date, i) ==
    IF i > Len(sp) THEN S
    ELSE capture_from(sp, st,
            IF sp[i].status = "ACTIVE"
            THEN UNION {upsert_snapshot(s, i, target_date,
                                        calculate_remaining_points(st, i)) : s \in S}
            ELSE S,
            target_date, i + 1)

\* capture_burndown_snapshots(for_date): the set of snapshot tables it can leave.
capture_burndown_snapshots(sp, st, snaps, target_date) ==
    capture_from(sp, st, {snaps}, target_date, 1)

(***************************************************************************)
(* Simulation driver.                                                      *)
(***************************************************************************)
\* .filter(status == ACTIVE).order_by(start_date).first(): the rows that can
\* come first (rows with equal start_date come in an order SQL leaves open).
first_active_sprints_any_order(sp) ==
    {i \in Ids(sp) : sp[i].status = "ACTIVE"}

first_active_sprints(sp) ==
    {i \in Ids(sp) : /\ sp[i].status = "ACTIVE"
                     /\ \A j \in Ids(sp) : sp[j].status = "ACTIVE"
                            => sp[i].start_date <= sp[j].start_date}

pick_task_lowest_id(st, tk, sprint_id, status) ==
    LET C == {i \in LiveTasks(tk) : /\ tk[i].status = status
                                    /\ st[tk[i].story_id].sprint_id = sprint_id}
    IN  IF C = {} THEN 0 ELSE CHOOSE i \in C : \A j \in C : i <= j

pick_task_any_sprint(st, tk, sprint_id, status) ==
    LET C == {i \in LiveTasks(tk) : tk[i].status = status}
    IN  IF C = {} THEN 0
        ELSE CHOOSE i \in C : \A j \in C :
                \/ (tk[i].is_tech_debt /\ ~tk[j].is_tech_debt)
                \/ (tk[i].is_tech_debt = tk[j].is_tech_debt /\ i <= j)

pick_task(st, tk, sprint_id, status) ==
    LET C == {i \in LiveTasks(tk) : /\ tk[i].status = status
                                    /\ st[tk[i].story_id].sprint_id = sprint_id}
    IN  IF C = {} THEN 0
        ELSE CHOOSE i \in C : \A j \in C :
                \/ (tk[i].is_tech_debt /\ ~tk[j].is_tech_debt)
                \/ (tk[i].is_tech_debt = tk[j].is_tech_debt /\ i <= j)

TechDebtStory(sprint_id) ==
    [sprint_id |-> sprint_id, story_points |-> 5, priority |-> 1,
     is_tech_debt |-> TRUE, status |-> "PLANNED"]

TechDebtTask(story_id) ==
    [story_id |-> story_id, status |-> "TODO", is_tech_debt |-> TRUE,
     story_points |-> 2, assignee |-> NULL]

\* A story whose priority is NULL (update_story stores the null of a payload;
\* the column is nullable) has priority NullPriority here: ORDER BY priority
\* puts NULL before every number in MySQL, as 0 is before 1..5.
NullPriority == 0

\* ensure_tech_debt_task: the stories and tasks tables after it.
ensure_tech_debt_task(st, tk, sprint_id) ==
    LET C == {i \in Ids(st) : st[i].sprint_id = sprint_id}
        st1 == IF C = {} THEN Append(st, TechDebtStory(sprint_id)) ELSE st
        story == IF C = {} THEN Len(st1)
                 ELSE CHOOSE i \in C : \A j \in C :
                        \/ st[i].priority < st[j].priority
                        \/ (st[i].priority = st[j].priority /\ i <= j)
    IN  [stories |-> st1, tasks |-> Append(tk, TechDebtTask(story))]

move_task_to_done(st, tk, task_id, status) ==
    LET tk1 == [tk EXCEPT ![task_id].status = "DONE"]
    IN  [stories |-> sync_story_status(st, tk1, tk1[task_id].story_id),
         tasks |-> tk1]

move_task_no_sync(st, tk, task_id, status) ==
    [stories |-> st, tasks |-> [tk EXCEPT ![task_id].status = status]]

move_task(st, tk, task_id, status) ==
    LET tk1 == [tk EXCEPT ![task_id].status = status]
    IN  [stories |-> sync_story_status(st, tk1, tk1[task_id].story_id),
         tasks |-> tk1]

\* simulate_progress for the sprint the first query returned.
simulate_progress_in(st, tk, sprint_id) ==
    LET code_review_task == pick_task(st, tk, sprint_id, "CODE_REVIEW")
        in_progress_task == pick_task(st, tk, sprint_id, "IN_PROGRESS")
        todo_task == pick_task(st, tk, sprint_id, "TODO")
    IN  IF code_review_task # 0 THEN move_task(st, tk, code_review_task, "DONE")
        ELSE IF in_progress_task # 0
             THEN move_task(st, tk, in_progress_task, "CODE_REVIEW")
        ELSE IF todo_task # 0 THEN move_task(st, tk, todo_task, "IN_PROGRESS")
        ELSE ensure_tech_debt_task(st, tk, sprint_id)

\* simulate_progress: the set of (stories, tasks) it can leave.
simulate_progress(sp, st, tk) ==
    IF first_active_sprints(sp) = {}
    THEN {[stories |-> st, tasks |-> tk]}
    ELSE {simulate_progress_in(st, tk, s) : s \in first_active_sprints(sp)}

\* One pass of the loop of simulate_advance_days over a world
\* [stories, tasks, snapshots, offset, created]: the set of worlds it can leave.
advance_one_day_stale_date(sp, today, w) ==
    LET simulate_date == get_today_at(today, w.offset)
        offset == w.offset + 1
    IN  UNION {{[stories |-> p.stories, tasks |-> p.tasks, snapshots |-> s,
                 offset |-> offset, created |-> w.created + 1] :
                s \in capture_burndown_snapshots(sp, p.stories, w.snapshots,
                                                 simulate_date)} :
               p \in simulate_progress(sp, w.stories, w.tasks)}

advance_one_day(sp, today, w) ==
    LET offset == w.offset + 1
        simulate_date == get_today_at(today, offset)
    IN  UNION {{[stories |-> p.stories, tasks |-> p.tasks, snapshots |-> s,
                 offset |-> offset, created |-> w.created + 1] :
                s \in capture_burndown_snapshots(sp, p.stories, w.snapshots,
                                                 simulate_date)} :
               p \in simulate_progress(sp, w.stories, w.tasks)}

RECURSIVE advance_days_loop(_, _, _, _)
advance_days_loop(sp, today, W, days) ==
    IF days = 0 THEN W
    ELSE advance_days_loop(sp, today,
                           UNION {advance_one_day(sp, today, w) : w \in W},
                           days - 1)

(***************************************************************************)
(* Responses.  last records the request just served: its name, the HTTP    *)
(* status, the id and the argument it was about, the status the affected   *)
(* story had before (pre_status), whether a snapshot for the target day    *)
(* was already there (existed), the count the response carries, and the    *)
(* list it carries (body).                                                 *)
(***************************************************************************)
NoRequest ==
    [op |-> "none", code |-> 0, id |-> 0, arg |-> 0, pre_status |-> "",
     existed |-> FALSE, created |-> 0, body |-> <<>>]

Response(op, code, id, arg) ==
    [NoRequest EXCEPT !.op = op, !.code = code, !.id = id, !.arg = arg]

\* Whether some active sprint already has a snapshot for day d.
AlreadyCaptured(d) ==
    \E i \in Ids(sprints) :
        sprints[i].status = "ACTIVE" /\ SnapshotRows(snapshots, i, d) # {}

(***************************************************************************)
(* Simulation control surface.                                             *)
(***************************************************************************)
advance_days_rejects_negative_only(days) == days < 0

advance_days_rejects(days) == days <= 0

simulate_advance_days(days) ==
    IF advance_days_rejects(days)
    THEN /\ last' = Response("advance_days", 400, 0, days)
         /\ UNCHANGED <<db, SIMULATION_OFFSET_DAYS, date_today, captures, advances>>
    ELSE \E w \in advance_days_loop(sprints, date_today,
                    {[stories |-> stories, tasks |-> tasks,
                      snapshots |-> snapshots,
                      offset |-> SIMULATION_OFFSET_DAYS, created |-> 0]}, days) :
            /\ w.offset <= MaxOffset
            /\ Len(w.tasks) <= MaxTasks \/ Len(w.tasks) = Len(tasks)
            /\ stories' = w.stories
            /\ tasks' = w.tasks
            /\ snapshots' = w.snapshots
            /\ SIMULATION_OFFSET_DAYS' = w.offset
            /\ last' = [Response("advance_days", 200, 0, days) EXCEPT
                           !.created = w.created]
            /\ UNCHANGED <<sprints, github_links, date_today, captures, advances>>

set_remaining_days_rejects(remaining_days) == remaining_days < 0

set_remaining_offset_adds(end_date, today, offset, remaining_days) ==
    offset + ((end_date - today) - remaining_days)

set_remaining_offset(end_date, today, offset, remaining_days) ==
    (end_date - today) - remaining_days

simulate_set_remaining_days(remaining_days) ==
    IF set_remaining_days_rejects(remaining_days)
    THEN /\ last' = Response("set_remaining_days", 400, 0, remaining_days)
         /\ UNCHANGED <<db, SIMULATION_OFFSET_DAYS, date_today, captures, advances>>
    ELSE IF first_active_sprints(sprints) = {}
    THEN /\ last' = Response("set_remaining_days", 404, 0, remaining_days)
         /\ UNCHANGED <<db, SIMULATION_OFFSET_DAYS, date_today, captures, advances>>
    ELSE \E sprint \in first_active_sprints(sprints) :
         LET offset == set_remaining_offset(sprints[sprint].end_date, date_today,
                                            SIMULATION_OFFSET_DAYS, remaining_days)
             snapshot_date == get_today_at(date_today, offset)
         IN  /\ SIMULATION_OFFSET_DAYS' = offset
             /\ snapshots' \in capture_burndown_snapshots(sprints, stories,
                                                          snapshots, snapshot_date)
             /\ last' = [Response("set_remaining_days", 200, sprint, remaining_days)
                            EXCEPT !.existed = AlreadyCaptured(snapshot_date)]
             /\ UNCHANGED <<sprints, stories, tasks, github_links, date_today, captures, advances>>

\* A call of simulate_progress(db) by itself: one step of the driver.
simulate_progress_call ==
    /\ \E p \in simulate_progress(sprints, stories, tasks) :
          /\ Len(p.tasks) <= MaxTasks \/ Len(p.tasks) = Len(tasks)
          /\ stories' = p.stories
          /\ tasks' = p.tasks
          /\ last' = [Response("simulate_progress", 200, 0, 0) EXCEPT
                         !.created = Len(p.tasks) - Len(tasks)]
    /\ UNCHANGED <<sprints, github_links, snapshots, SIMULATION_OFFSET_DAYS,
                   date_today, captures, advances>>

\* The scheduler's cron job (hour=0, minute=0): the calendar day turns and
\* capture_burndown_snapshots() runs with no for_date.
scheduled_capture ==
    /\ date_today < MaxRealDay
    /\ date_today' = date_today + 1
    /\ LET target_date == get_today_at(date_today + 1, SIMULATION_OFFSET_DAYS)
       IN  /\ snapshots' \in capture_burndown_snapshots(sprints, stories,
                                                        snapshots, target_date)
           /\ last' = [Response("scheduled_capture", 200, 0, 0) EXCEPT
                          !.existed = AlreadyCaptured(target_date)]
    /\ UNCHANGED <<sprints, stories, tasks, github_links, SIMULATION_OFFSET_DAYS, captures, advances>>

(***************************************************************************)
(* Startup and demo seeding.                                               *)
(***************************************************************************)
SeedTask(status, is_tech_debt, story_points, assignee) ==
    [status |-> status, is_tech_debt |-> is_tech_debt,
     story_points |-> story_points, assignee |-> assignee]

story_defs ==
    << [story_points |-> 8, priority |-> 1,
        tasks |-> << SeedTask("IN_PROGRESS", FALSE, 3, "alice"), SeedTask("TODO", FALSE, 3, "bob"),
                     SeedTask("TODO", TRUE, 2, "alice") >>],
       [story_points |-> 7, priority |-> 2,
        tasks |-> << SeedTask("DONE", FALSE, 2, "carol"), SeedTask("TODO", FALSE, 3, "dave"),
                     SeedTask("CODE_REVIEW", TRUE, 2, "carol") >>],
       [story_points |-> 9, priority |-> 1,
        tasks |-> << SeedTask("IN_PROGRESS", FALSE, 4, "erin"), SeedTask("CODE_REVIEW", FALSE, 3, "frank"),
                     SeedTask("TODO", FALSE, 2, "erin") >>],
       [story_points |-> 6, priority |-> 3,
        tasks |-> << SeedTask("DONE", FALSE, 3, "grace"), SeedTask("TODO", FALSE, 3, "heidi") >>] >>

\* The inner loop of seed_demo_data over task_defs.  The session has
\* autoflush=False: a task row reaches the database only at db.flush(), which
\* the loop calls after adding a CODE_REVIEW task; w.flushed is the number of
\* task rows flushed so far.  A CODE_REVIEW task gets a link row.
SeedLink(task_id) == [task_id |-> task_id, kind |-> "pr"]

RECURSIVE seed_tasks(_, _, _, _)
seed_tasks(w, story_id, task_defs, k) ==
    IF k > Len(task_defs) THEN w
    ELSE LET tk1 == Append(w.tasks, [story_id |-> story_id,
                                     status |-> task_defs[k].status,
                                     is_tech_debt |-> task_defs[k].is_tech_debt,
                                     story_points |-> task_defs[k].story_points,
                                     assignee |-> task_defs[k].assignee])
         IN  seed_tasks([w EXCEPT !.tasks = tk1,
                                  !.flushed = IF task_defs[k].status = "CODE_REVIEW"
                                              THEN Len(tk1) ELSE @,
                                  !.links = IF task_defs[k].status = "CODE_REVIEW"
                                            THEN @ (+) SetToBag({SeedLink(Len(tk1))})
                                            ELSE @],
                        story_id, task_defs, k + 1)

\* The loop of seed_demo_data over story_defs; sync_story_status(db, story)
\* loads story.tasks from the rows flushed so far.
RECURSIVE seed_stories(_, _, _)
seed_stories(w, sprint_id, n) ==
    IF n > Len(story_defs) THEN w
    ELSE LET st1 == Append(w.stories,
                       [sprint_id |-> sprint_id,
                        story_points |-> story_defs[n].story_points,
                        priority |-> story_defs[n].priority,
                        is_tech_debt |-> FALSE, status |-> "PLANNED"])
             w1 == seed_tasks([w EXCEPT !.stories = st1], Len(st1),
                              story_defs[n].tasks, 1)
         IN  seed_stories([w1 EXCEPT !.stories =
                              sync_story_status(w1.stories,
                                                SubSeq(w1.tasks, 1, w1.flushed),
                                                Len(st1))],
                          sprint_id, n + 1)

\* seed_demo_data with offset 0: the set of [sprints, stories, tasks, links,
\* snapshots] it can leave.  Both captures at its end are for get_today().
seed_demo_data(sp, st, tk, links, snaps, today) ==
    LET sp1 == Append(sp, [status |-> "ACTIVE", start_date |-> today,
                           end_date |-> today + 7])
        w == seed_stories([stories |-> st, tasks |-> tk, flushed |-> Len(tk),
                           links |-> links],
                          Len(sp1), 1)
    IN  UNION {{[sprints |-> sp1, stories |-> w.stories, tasks |-> w.tasks,
                 links |-> w.links, snapshots |-> s2] :
                s2 \in capture_burndown_snapshots(sp1, w.stories, s1, today)} :
               s1 \in capture_burndown_snapshots(sp1, w.stories, snaps, today)}

\* The process start, before any request is served: the module-level offset
\* is 0, and on_startup seeds the demo data when DEVSPRINT_SEED_DEMO is set and
\* the tasks table is empty.  (A later restart of the process is not modelled.)
on_startup(seed_flag) ==
    /\ last = NoRequest
    /\ SIMULATION_OFFSET_DAYS' = 0
    /\ UNCHANGED <<date_today, captures, advances>>
    /\ IF seed_flag /\ LiveTasks(tasks) = {}
       THEN \E w \in seed_demo_data(sprints, stories, tasks, github_links,
                                    snapshots, date_today) :
               /\ sprints' = w.sprints
               /\ stories' = w.stories
               /\ tasks' = w.tasks
               /\ github_links' = w.links
               /\ snapshots' = w.snapshots
               /\ last' = [Response("seed_demo_data", 200, Len(w.sprints), 0) EXCEPT
                              !.existed = AlreadyCaptured(date_today)]
       ELSE /\ last' = Response("on_startup", 200, 0, 0)
            /\ UNCHANGED <<sprints, stories, tasks, github_links, snapshots, captures, advances>>

(***************************************************************************)
(* Story, task and webhook handlers.                                       *)
(***************************************************************************)
\* for key, value in payload.dict(exclude_unset=True).items(): setattr(...)
ApplyPatch(row, patch) ==
    [f \in DOMAIN row |-> IF f \in DOMAIN patch THEN patch[f] ELSE row[f]]

\* if sprint.end_date < sprint.start_date: raise HTTPException(400)
sprint_dates_rejected_never(row) == FALSE

sprint_dates_rejected(row) == row.end_date < row.start_date

create_sprint(start_date, end_date, status) ==
    /\ Len(sprints) < MaxSprints
    /\ LET sprint == [status |-> status, start_date |-> start_date,
                      end_date |-> end_date]
       IN  IF sprint_dates_rejected(sprint)
           THEN /\ last' = Response("create_sprint", 400, 0, 0)
                /\ UNCHANGED <<db, SIMULATION_OFFSET_DAYS, date_today, captures, advances>>
           ELSE /\ sprints' = Append(sprints, sprint)
                /\ last' = Response("create_sprint", 200, Len(sprints) + 1, 0)
                /\ UNCHANGED <<stories, tasks, github_links, snapshots,
                               SIMULATION_OFFSET_DAYS, date_today, captures, advances>>

\* The patch is applied to the session's object; on the 400 the request's
\* session is closed without a commit (get_db), so the row stays as it was.
update_sprint(sprint_id, patch) ==
    IF sprint_id \notin Ids(sprints)
    THEN /\ last' = Response("update_sprint", 404, 0, sprint_id)
         /\ UNCHANGED <<db, SIMULATION_OFFSET_DAYS, date_today, captures, advances>>
    ELSE LET sprint == ApplyPatch(sprints[sprint_id], patch)
         IN  IF sprint_dates_rejected(sprint)
             THEN /\ last' = Response("update_sprint", 400, sprint_id, sprint_id)
                  /\ UNCHANGED <<db, SIMULATION_OFFSET_DAYS, date_today, captures, advances>>
             ELSE /\ sprints' = [sprints EXCEPT ![sprint_id] = sprint]
                  /\ last' = Response("update_sprint", 200, sprint_id, sprint_id)
                  /\ UNCHANGED <<stories, tasks, github_links, snapshots,
                                 SIMULATION_OFFSET_DAYS, date_today, captures, advances>>

\* sprint_id 0 stands for no sprint (None).
create_story(sprint_id, story_points, priority, is_tech_debt, status) ==
    /\ Len(stories) < MaxStories
    /\ IF sprint_id # 0 /\ sprint_id \notin Ids(sprints)
       THEN /\ last' = Response("create_story", 404, 0, sprint_id)
            /\ UNCHANGED <<db, SIMULATION_OFFSET_DAYS, date_today, captures, advances>>
       ELSE /\ stories' = Append(stories,
                              [sprint_id |-> sprint_id, story_points |-> story_points,
                               priority |-> priority, is_tech_debt |-> is_tech_debt,
                               status |-> status])
            /\ last' = Response("create_story", 200, Len(stories) + 1, 0)
            /\ UNCHANGED <<sprints, tasks, github_links, snapshots,
                           SIMULATION_OFFSET_DAYS, date_today, captures, advances>>

update_story(story_id, patch) ==
    IF story_id \notin Ids(stories)
    THEN /\ last' = Response("update_story", 404, 0, story_id)
         /\ UNCHANGED <<db, SIMULATION_OFFSET_DAYS, date_today, captures, advances>>
    ELSE IF /\ "sprint_id" \in DOMAIN patch
            /\ patch.sprint_id # 0
            /\ patch.sprint_id \notin Ids(sprints)
    THEN /\ last' = Response("update_story", 404, story_id, story_id)
         /\ UNCHANGED <<db, SIMULATION_OFFSET_DAYS, date_today, captures, advances>>
    ELSE /\ stories' = [stories EXCEPT ![story_id] = ApplyPatch(@, patch)]
         /\ last' = [Response("update_story", 200, story_id, story_id) EXCEPT
                        !.pre_status = stories[story_id].status]
         /\ UNCHANGED <<sprints, tasks, github_links, snapshots,
                        SIMULATION_OFFSET_DAYS, date_today, captures, advances>>

\* Every request of the model carries story_points 1 and assignee "alice".
create_task(story_id, status, is_tech_debt) ==
    /\ Len(tasks) < MaxTasks
    /\ IF story_id \notin Ids(stories)
       THEN /\ last' = Response("create_task", 404, 0, 0)
            /\ UNCHANGED <<db, SIMULATION_OFFSET_DAYS, date_today, captures, advances>>
       ELSE LET tk1 == Append(tasks, [story_id |-> story_id, status |-> status,
                                      is_tech_debt |-> is_tech_debt,
                                      story_points |-> 1, assignee |-> "alice"])
            IN  /\ tasks' = tk1
                /\ stories' = sync_story_status(stories, tk1, story_id)
                /\ last' = [Response("create_task", 200, story_id, Len(tk1)) EXCEPT
                               !.pre_status = stories[story_id].status]
                /\ UNCHANGED <<sprints, github_links, snapshots,
                               SIMULATION_OFFSET_DAYS, date_today, captures, advances>>

update_task(task_id, patch) ==
    IF task_id \notin LiveTasks(tasks)
    THEN /\ last' = Response("update_task", 404, 0, task_id)
         /\ UNCHANGED <<db, SIMULATION_OFFSET_DAYS, date_today, captures, advances>>
    ELSE LET tk1 == [tasks EXCEPT ![task_id] = ApplyPatch(@, patch)]
             story_id == tasks[task_id].story_id
         IN  /\ tasks' = tk1
             /\ stories' = sync_story_status(stories, tk1, story_id)
             /\ last' = [Response("update_task", 200, story_id, task_id) EXCEPT
                            !.pre_status = stories[story_id].status]
             /\ UNCHANGED <<sprints, github_links, snapshots,
                            SIMULATION_OFFSET_DAYS, date_today, captures, advances>>

\* The links of the task go with it (cascade="all, delete-orphan").
LinksWithout(links, task_id) ==
    LET keep == {r \in BagToSet(links) : r.task_id # task_id}
    IN  [r \in keep |-> links[r]]

delete_task_unknown_drops_links(task_id) ==
    IF task_id \notin LiveTasks(tasks)
    THEN /\ last' = Response("delete_task", 404, 0, task_id)
         /\ github_links' = EmptyBag
         /\ UNCHANGED <<sprints, stories, tasks, snapshots,
                        SIMULATION_OFFSET_DAYS, date_today, captures, advances>>
    ELSE LET tk1 == [tasks EXCEPT ![task_id] = Tombstone]
             story_id == tasks[task_id].story_id
         IN  /\ tasks' = tk1
             /\ github_links' = LinksWithout(github_links, task_id)
             /\ stories' = sync_story_status(stories, tk1, story_id)
             /\ last' = [Response("delete_task", 200, story_id, task_id) EXCEPT
                            !.pre_status = stories[story_id].status]
             /\ UNCHANGED <<sprints, snapshots, SIMULATION_OFFSET_DAYS, date_today, captures, advances>>

delete_task(task_id) ==
    IF task_id \notin LiveTasks(tasks)
    THEN /\ last' = Response("delete_task", 404, 0, task_id)
         /\ UNCHANGED <<db, SIMULATION_OFFSET_DAYS, date_today, captures, advances>>
    ELSE LET tk1 == [tasks EXCEPT ![task_id] = Tombstone]
             story_id == tasks[task_id].story_id
         IN  /\ tasks' = tk1
             /\ github_links' = LinksWithout(github_links, task_id)
             /\ stories' = sync_story_status(stories, tk1, story_id)
             /\ last' = [Response("delete_task", 200, story_id, task_id) EXCEPT
                            !.pre_status = stories[story_id].status]
             /\ UNCHANGED <<sprints, snapshots, SIMULATION_OFFSET_DAYS, date_today, captures, advances>>

NewLink(task_id, kind) == [task_id |-> task_id, kind |-> kind]

\* link_commit_to_task for each reference of the commit messages, in order;
\* w is [tasks, links, processed].
RECURSIVE link_commits(_, _, _)
link_commits(w, refs, k) ==
    IF k > Len(refs) THEN w
    ELSE link_commits(
            IF refs[k] \in LiveTasks(w.tasks)
            THEN [w EXCEPT !.links = @ (+) SetToBag({NewLink(refs[k], "commit")}),
                           !.processed = Append(@, refs[k])]
            ELSE w,
            refs, k + 1)

RECURSIVE link_prs_keeps_done(_, _, _)
link_prs_keeps_done(w, refs, k) ==
    IF k > Len(refs) THEN w
    ELSE link_prs_keeps_done(
            IF refs[k] \in LiveTasks(w.tasks)
            THEN [w EXCEPT !.links = @ (+) SetToBag({NewLink(refs[k], "pr")}),
                           !.tasks[refs[k]].status =
                               IF @ = "DONE" THEN @ ELSE "CODE_REVIEW",
                           !.processed = Append(@, refs[k])]
            ELSE w,
            refs, k + 1)

\* link_pr_to_task for each reference of the pull request's title and body.
RECURSIVE link_prs(_, _, _)
link_prs(w, refs, k) ==
    IF k > Len(refs) THEN w
    ELSE link_prs(
            IF refs[k] \in LiveTasks(w.tasks)
            THEN [w EXCEPT !.links = @ (+) SetToBag({NewLink(refs[k], "pr")}),
                           !.tasks[refs[k]].status = "CODE_REVIEW",
                           !.processed = Append(@, refs[k])]
            ELSE w,
            refs, k + 1)

\* commit_refs: what commit_ref_pattern finds in the commit messages, in
\* order; pr_refs: what it finds in the pull request's title and body (empty
\* when the payload has no pull_request).
github_webhook(commit_refs, pr_refs) ==
    LET w0 == [tasks |-> tasks, links |-> github_links, processed |-> <<>>]
        w == link_prs(link_commits(w0, commit_refs, 1), pr_refs, 1)
    IN  /\ BagCardinality(w.links) <= MaxLinks
        /\ tasks' = w.tasks
        /\ github_links' = w.links
        /\ last' = [Response("github_webhook", 200, 0, 0) EXCEPT
                       !.created = Len(w.processed)]
        /\ UNCHANGED <<sprints, stories, snapshots, SIMULATION_OFFSET_DAYS, date_today, captures, advances>>

(***************************************************************************)
(* Burndown series.  ideal is a float in the code; here it is the exact    *)
(* fraction num / den with den = max(total_days - 1, 1).  (The quotient    *)
(* index * total_points / den is rounded to nearest, so it is 0 at index 0 *)
(* and total_points at index den, and it grows with index, as the exact    *)
(* quotient does.)                                                         *)
(***************************************************************************)
Max(a, b) == IF a >= b THEN a ELSE b

burndown_total_days_exclusive(start_date, end_date) ==
    Max(end_date - start_date, 1)

burndown_total_days(start_date, end_date) ==
    Max((end_date - start_date) + 1, 1)

\* sum(story.story_points for story in sprint.stories), at least 0.
burndown_total_points(st, sprint_id) ==
    LET S == {i \in Ids(st) : st[i].sprint_id = sprint_id}
    IN  Max(SumOver([i \in S |-> st[i].story_points], S), 0)

\* The dicts {snap.snapshot_date: snap.remaining_points} the query can give:
\* of several rows of one date, the one that comes last in the ORDER BY wins.
snapshot_maps(snaps, sprint_id) ==
    LET rows == {r \in BagToSet(snaps) : r.sprint_id = sprint_id}
        dates == {r.snapshot_date : r \in rows}
    IN  {f \in [dates -> {r.remaining_points : r \in rows}] :
            \A d \in dates : \E r \in rows :
                r.snapshot_date = d /\ r.remaining_points = f[d]}

\* The loop over range(total_days), from index on; last_actual is the value
\* carried into this pass.
RECURSIVE burndown_points(_, _, _, _, _, _)
burndown_points(snapshot_map, start_date, total_days, total_points, last_actual, index) ==
    IF index >= total_days THEN <<>>
    ELSE LET den == Max(total_days - 1, 1)
             current_day == start_date + index
             actual == IF current_day \in DOMAIN snapshot_map
                       THEN snapshot_map[current_day] ELSE last_actual
         IN  << [day |-> index + 1,
                 ideal |-> [num |-> Max(total_points * den - index * total_points, 0),
                            den |-> den],
                 actual |-> Max(actual, 0)] >>
             \o burndown_points(snapshot_map, start_date, total_days,
                                total_points, actual, index + 1)

\* if burndown_points and not snapshots: the last point gets the live figure.
live_last_point_always(points, has_snapshots, live) ==
    IF points # <<>>
    THEN [points EXCEPT ![Len(points)].actual = live]
    ELSE points

live_last_point(points, has_snapshots, live) ==
    IF points # <<>> /\ ~has_snapshots
    THEN [points EXCEPT ![Len(points)].actual = live]
    ELSE points

\* build_burndown_payload: the set of lists it can return.
build_burndown_payload(sp, st, snaps, sprint_id) ==
    LET total_days == burndown_total_days(sp[sprint_id].start_date,
                                          sp[sprint_id].end_date)
        total_points == burndown_total_points(st, sprint_id)
    IN  {live_last_point(
            burndown_points(f, sp[sprint_id].start_date, total_days,
                            total_points, total_points, 0),
            DOMAIN f # {},
            calculate_remaining_points(st, sprint_id)) :
         f \in snapshot_maps(snaps, sprint_id)}

get_burndown_resets_clock(sprint_id) ==
    /\ IF sprint_id \notin Ids(sprints)
       THEN last' = Response("get_burndown", 404, 0, sprint_id)
       ELSE \E body \in build_burndown_payload(sprints, stories, snapshots,
                                                sprint_id) :
               last' = [Response("get_burndown", 200, sprint_id, sprint_id)
                           EXCEPT !.body = body]
    /\ SIMULATION_OFFSET_DAYS' = 0
    /\ UNCHANGED <<db, date_today, captures, advances>>

get_burndown(sprint_id) ==
    /\ IF sprint_id \notin Ids(sprints)
       THEN last' = Response("get_burndown", 404, 0, sprint_id)
       ELSE \E body \in build_burndown_payload(sprints, stories, snapshots,
                                                sprint_id) :
               last' = [Response("get_burndown", 200, sprint_id, sprint_id)
                           EXCEPT !.body = body]
    /\ UNCHANGED <<db, SIMULATION_OFFSET_DAYS, date_today, captures, advances>>

\* The dashboard of the first ACTIVE sprint by start date, or the empty one.
\* The response is kept in last.body; countdown is NULL when no sprint is
\* ACTIVE.
review_queue(tk) == {i \in LiveTasks(tk) : tk[i].status = "CODE_REVIEW"}

tech_debt_points(st, sprint_id) ==
    SumOver([i \in Ids(st) |-> st[i].story_points],
            {i \in Ids(st) : st[i].sprint_id = sprint_id /\ st[i].is_tech_debt})

get_dashboard ==
    /\ IF first_active_sprints(sprints) = {}
       THEN last' = [Response("get_dashboard", 200, 0, 0) EXCEPT
                        !.body = [sprint |-> 0, burndown |-> <<>>,
                                  review_queue |-> review_queue(tasks),
                                  tech_debt_points |-> 0,
                                  sprint_countdown_days |-> NULL]]
       ELSE \E sprint \in first_active_sprints(sprints) :
            \E burndown \in build_burndown_payload(sprints, stories, snapshots,
                                                    sprint) :
               last' = [Response("get_dashboard", 200, sprint, 0) EXCEPT
                           !.body = [sprint |-> sprint, burndown |-> burndown,
                                     review_queue |-> review_queue(tasks),
                                     tech_debt_points |->
                                         tech_debt_points(stories, sprint),
                                     sprint_countdown_days |->
                                         sprints[sprint].end_date - get_today]]
    /\ UNCHANGED <<db, SIMULATION_OFFSET_DAYS, date_today, captures, advances>>

(***************************************************************************)
(* capture_burndown_snapshots statement by statement.  Every call opens    *)
(* its own session (SessionLocal()): the scheduler's thread runs the cron  *)
(* job while a request thread runs the call a simulate handler makes.  A   *)
(* call reads committed rows, keeps its writes pending in its session, and *)
(* makes them visible at db.commit(); an exception anywhere in the try     *)
(* block is logged and answered with db.rollback().                        *)
(***************************************************************************)
Callers == {"scheduler", "request"}

IdleCapture == [pc |-> "idle", target_date |-> 0, active_sprints |-> <<>>,
                pending |-> <<>>]

NoCaptures == [c \in Callers |-> IdleCapture]

\* .filter(status == ACTIVE).all(), in id order.
RECURSIVE active_sprints_from(_, _)
active_sprints_from(sp, i) ==
    IF i > Len(sp) THEN <<>>
    ELSE (IF sp[i].status = "ACTIVE" THEN <<i>> ELSE <<>>)
         \o active_sprints_from(sp, i + 1)

StartedCapture(target_date) ==
    [pc |-> "running", target_date |-> target_date,
     active_sprints |-> active_sprints_from(sprints, 1), pending |-> <<>>]

\* The cron job at midnight: capture_burndown_snapshots() up to the loop.
scheduled_capture_begin ==
    /\ captures["scheduler"].pc = "idle"
    /\ date_today < MaxRealDay
    /\ date_today' = date_today + 1
    /\ captures' = [captures EXCEPT !["scheduler"] =
                       StartedCapture(get_today_at(date_today + 1,
                                                   SIMULATION_OFFSET_DAYS))]
    /\ last' = Response("scheduled_capture_begin", 200, 0, 0)
    /\ UNCHANGED <<db, SIMULATION_OFFSET_DAYS, advances>>

\* simulate_set_remaining_days up to the loop of the capture it calls.
set_remaining_days_begin(remaining_days) ==
    /\ captures["request"].pc = "idle"
    /\ ~set_remaining_days_rejects(remaining_days)
    /\ \E sprint \in first_active_sprints(sprints) :
          LET offset == set_remaining_offset(sprints[sprint].end_date, date_today,
                                             SIMULATION_OFFSET_DAYS, remaining_days)
          IN  /\ SIMULATION_OFFSET_DAYS' = offset
              /\ captures' = [captures EXCEPT !["request"] =
                                 StartedCapture(get_today_at(date_today, offset))]
              /\ last' = Response("set_remaining_days_begin", 200, sprint,
                                  remaining_days)
    /\ UNCHANGED <<db, date_today, advances>>

\* A write the session holds until the commit.
stage_write_autocommit(snaps, pending, write) ==
    [snapshots |-> IF write.kind = "insert"
                   THEN snaps (+) SetToBag({write.row})
                   ELSE (snaps (-) SetToBag({write.row}))
                        (+) SetToBag({[write.row EXCEPT
                                          !.remaining_points = write.remaining]}),
     pending |-> pending]

stage_write(snaps, pending, write) ==
    [snapshots |-> snaps, pending |-> Append(pending, write)]

\* One pass of the loop: the existence check on the committed rows, and the
\* write it leads to.
capture_sprint(c) ==
    /\ captures[c].pc = "running"
    /\ captures[c].active_sprints # <<>>
    /\ LET sprint == Head(captures[c].active_sprints)
           d == captures[c].target_date
           remaining == calculate_remaining_points(stories, sprint)
           writes == IF SnapshotRows(snapshots, sprint, d) # {}
                     THEN {[kind |-> "update", row |-> r, remaining |-> remaining] :
                           r \in SnapshotRows(snapshots, sprint, d)}
                     ELSE {[kind |-> "insert",
                            row |-> NewSnapshot(sprint, d, remaining),
                            remaining |-> remaining]}
       IN  \E write \in writes :
              LET w == stage_write(snapshots, captures[c].pending, write)
              IN  /\ snapshots' = w.snapshots
                  /\ captures' = [captures EXCEPT
                                     ![c].active_sprints = Tail(@),
                                     ![c].pending = w.pending]
                  /\ last' = Response("capture_sprint", 200, sprint, 0)
    /\ UNCHANGED <<sprints, stories, tasks, github_links,
                   SIMULATION_OFFSET_DAYS, date_today, advances>>

\* The rows after the pending writes: an insert adds a row; an update sets
\* remaining_points of the row it read.
RECURSIVE flush_writes(_, _, _)
flush_writes(snaps, pending, k) ==
    IF k > Len(pending) THEN snaps
    ELSE LET write == pending[k]
             same == {r \in SnapshotRows(snaps, write.row.sprint_id,
                                         write.row.snapshot_date) :
                         CopiesIn(r, snaps) > 0}
             old == IF CopiesIn(write.row, snaps) > 0 THEN write.row
                    ELSE CHOOSE r \in same : TRUE
         IN  flush_writes(
                IF write.kind = "insert" THEN snaps (+) SetToBag({write.row})
                ELSE (snaps (-) SetToBag({old}))
                     (+) SetToBag({[old EXCEPT !.remaining_points = write.remaining]}),
                pending, k + 1)

\* db.commit() after the loop.
capture_commit(c) ==
    /\ captures[c].pc = "running"
    /\ captures[c].active_sprints = <<>>
    /\ snapshots' = flush_writes(snapshots, captures[c].pending, 1)
    /\ captures' = [captures EXCEPT ![c] = IdleCapture]
    /\ last' = [Response("capture_commit", 200, 0, 0) EXCEPT
                   !.created = Len(captures[c].pending)]
    /\ UNCHANGED <<sprints, stories, tasks, github_links,
                   SIMULATION_OFFSET_DAYS, date_today, advances>>

\* A persistence error in a query of the loop or in db.commit(): the except
\* branch rolls the session back and the call returns.
capture_fail(c) ==
    /\ captures[c].pc = "running"
    /\ captures' = [captures EXCEPT ![c] = IdleCapture]
    /\ last' = [Response("capture_fail", 200, 0, 0) EXCEPT
                   !.created = Len(captures[c].pending)]
    /\ UNCHANGED <<db, SIMULATION_OFFSET_DAYS, date_today, advances>>

(***************************************************************************)
(* simulate_advance_days statement by statement.  The route is a plain     *)
(* def, so each request runs in a thread of the server's pool, with its    *)
(* own session and with no lock around the module-level offset.  One pass  *)
(* of the loop is: SIMULATION_OFFSET_DAYS += 1 (a load of the global and a *)
(* store of the sum), simulate_date = get_today(), the queries of          *)
(* simulate_progress, its writes and commit, and the capture.              *)
(***************************************************************************)
Requests == {"first", "second"}

NoPlan == [kind |-> "none", sprint |-> 0, task |-> 0, status |-> ""]

IdleAdvance ==
    [pc |-> "idle", days |-> 0, left |-> 0, loaded |-> 0, simulate_date |-> 0,
     created |-> 0, plan |-> NoPlan]

NoAdvances == [r \in Requests |-> IdleAdvance]

\* The queries of simulate_progress for the sprint the first query returned:
\* what the branches that follow will do.
plan_progress_in(st, tk, sprint_id) ==
    LET code_review_task == pick_task(st, tk, sprint_id, "CODE_REVIEW")
        in_progress_task == pick_task(st, tk, sprint_id, "IN_PROGRESS")
        todo_task == pick_task(st, tk, sprint_id, "TODO")
    IN  IF code_review_task # 0
        THEN [kind |-> "move", sprint |-> sprint_id, task |-> code_review_task,
              status |-> "DONE"]
        ELSE IF in_progress_task # 0
        THEN [kind |-> "move", sprint |-> sprint_id, task |-> in_progress_task,
              status |-> "CODE_REVIEW"]
        ELSE IF todo_task # 0
        THEN [kind |-> "move", sprint |-> sprint_id, task |-> todo_task,
              status |-> "IN_PROGRESS"]
        ELSE [kind |-> "tech_debt", sprint |-> sprint_id, task |-> 0, status |-> ""]

plan_progress(sp, st, tk) ==
    IF first_active_sprints(sp) = {} THEN {NoPlan}
    ELSE {plan_progress_in(st, tk, s) : s \in first_active_sprints(sp)}

\* The branch simulate_progress takes on what it read, up to db.commit().
apply_progress(st, tk, plan) ==
    CASE plan.kind = "move" -> move_task(st, tk, plan.task, plan.status)
      [] plan.kind = "tech_debt" -> ensure_tech_debt_task(st, tk, plan.sprint)
      [] OTHER -> [stories |-> st, tasks |-> tk]

\* The request arrives: the check of days, and created = 0.  (Each thread in
\* Requests serves one request that passes the check.)
advance_days_begin(r, days) ==
    /\ advances[r].pc = "idle"
    /\ IF advance_days_rejects(days)
       THEN /\ last' = Response("advance_days", 400, 0, days)
            /\ UNCHANGED advances
       ELSE /\ advances' = [advances EXCEPT ![r] =
                               [IdleAdvance EXCEPT !.pc = "load", !.days = days,
                                                   !.left = days]]
            /\ last' = Response("advance_days_begin", 200, 0, days)
    /\ UNCHANGED <<db, SIMULATION_OFFSET_DAYS, date_today, captures>>

\* SIMULATION_OFFSET_DAYS += 1, first half: the global is loaded.
advance_load(r) ==
    /\ advances[r].pc = "load"
    /\ advances' = [advances EXCEPT ![r].pc = "store",
                                    ![r].loaded = SIMULATION_OFFSET_DAYS]
    /\ last' = Response("advance_load", 200, 0, advances[r].days)
    /\ UNCHANGED <<db, SIMULATION_OFFSET_DAYS, date_today, captures>>

\* SIMULATION_OFFSET_DAYS += 1, second half: the sum is stored.
advance_store(r) ==
    /\ advances[r].pc = "store"
    /\ advances[r].loaded + 1 <= MaxOffset
    /\ SIMULATION_OFFSET_DAYS' = advances[r].loaded + 1
    /\ advances' = [advances EXCEPT ![r].pc = "today"]
    /\ last' = Response("advance_store", 200, 0, advances[r].days)
    /\ UNCHANGED <<db, date_today, captures>>

advance_get_today_before_increment(r) ==
    /\ advances[r].pc = "today"
    /\ advances' = [advances EXCEPT ![r].pc = "step",
                                    ![r].simulate_date =
                                        get_today_at(date_today, advances[r].loaded)]
    /\ last' = Response("advance_get_today", 200, 0, advances[r].days)
    /\ UNCHANGED <<db, SIMULATION_OFFSET_DAYS, date_today, captures>>

\* simulate_date = get_today()
advance_get_today(r) ==
    /\ advances[r].pc = "today"
    /\ advances' = [advances EXCEPT ![r].pc = "step",
                                    ![r].simulate_date = get_today]
    /\ last' = Response("advance_get_today", 200, 0, advances[r].days)
    /\ UNCHANGED <<db, SIMULATION_OFFSET_DAYS, date_today, captures>>

\* simulate_progress(db): the queries for the sprint and for the three tasks.
progress_read(r) ==
    /\ advances[r].pc = "step"
    /\ \E plan \in plan_progress(sprints, stories, tasks) :
          /\ advances' = [advances EXCEPT ![r].pc = "write", ![r].plan = plan]
          /\ last' = Response("progress_read", 200, plan.task, advances[r].days)
    /\ UNCHANGED <<db, SIMULATION_OFFSET_DAYS, date_today, captures>>

\* simulate_progress(db): the branch taken and db.commit().
progress_write(r) ==
    /\ advances[r].pc = "write"
    /\ LET p == apply_progress(stories, tasks, advances[r].plan)
       IN  /\ Len(p.tasks) <= MaxTasks \/ Len(p.tasks) = Len(tasks)
           /\ stories' = p.stories
           /\ tasks' = p.tasks
    /\ advances' = [advances EXCEPT ![r].pc = "capture"]
    /\ last' = Response("progress_write", 200, advances[r].plan.task,
                        advances[r].days)
    /\ UNCHANGED <<sprints, github_links, snapshots, SIMULATION_OFFSET_DAYS,
                   date_today, captures>>

\* capture_burndown_snapshots(simulate_date) and created += 1; the loop goes
\* on or ends.
advance_capture(r) ==
    /\ advances[r].pc = "capture"
    /\ snapshots' \in capture_burndown_snapshots(sprints, stories, snapshots,
                                                 advances[r].simulate_date)
    /\ advances' = [advances EXCEPT
                       ![r].pc = IF advances[r].left = 1 THEN "return" ELSE "load",
                       ![r].left = @ - 1,
                       ![r].created = @ + 1,
                       ![r].plan = NoPlan]
    /\ last' = [Response("advance_capture", 200, 0, advances[r].simulate_date)
                   EXCEPT !.existed = AlreadyCaptured(advances[r].simulate_date)]
    /\ UNCHANGED <<sprints, stories, tasks, github_links, SIMULATION_OFFSET_DAYS,
                   date_today, captures>>

\* The response: created_snapshots and offset_days.
advance_return(r) ==
    /\ advances[r].pc = "return"
    /\ advances' = [advances EXCEPT ![r].pc = "done"]
    /\ last' = [Response("advance_return", 200, SIMULATION_OFFSET_DAYS,
                         advances[r].days)
                   EXCEPT !.created = advances[r].created]
    /\ UNCHANGED <<db, SIMULATION_OFFSET_DAYS, date_today, captures>>

(***************************************************************************)
(* Specification Spec: stories, tasks and the webhook on an empty          *)
(* database.                                                               *)
(***************************************************************************)
Init ==
    /\ sprints = <<>>
    /\ stories = <<>>
    /\ tasks = <<>>
    /\ github_links = EmptyBag
    /\ snapshots = EmptyBag
    /\ SIMULATION_OFFSET_DAYS = 0
    /\ date_today = 0
    /\ captures = NoCaptures
    /\ advances = NoAdvances
    /\ last = NoRequest

StoryIdArgs == 1..(MaxStories + 1)
TaskIdArgs == 1..(MaxTasks + 1)
StoryPatches ==
    {[status |-> s] : s \in UserStoryStatus \cup {NULL}} \cup {[sprint_id |-> 1]}
TaskPatches == {[status |-> s] : s \in TaskStatus}
RefArgs == { <<>> } \cup { <<i>> : i \in TaskIdArgs }

Next ==
    \/ \E sprint_id \in {0, 1}, status \in UserStoryStatus :
          create_story(sprint_id, 1, 3, FALSE, status)
    \/ \E story_id \in StoryIdArgs, patch \in StoryPatches :
          update_story(story_id, patch)
    \/ \E story_id \in StoryIdArgs, status \in TaskStatus :
          create_task(story_id, status, FALSE)
    \/ \E task_id \in TaskIdArgs, patch \in TaskPatches : update_task(task_id, patch)
    \/ \E task_id \in TaskIdArgs : delete_task(task_id)
    \/ \E commit_refs \in RefArgs, pr_refs \in RefArgs :
          github_webhook(commit_refs, pr_refs)

Spec == Init /\ [][Next]_vars

(***************************************************************************)
(* Specification SpecRollup: the handlers that call sync_story_status.     *)
(***************************************************************************)
RollupNext ==
    \/ \E status \in UserStoryStatus : create_story(0, 1, 3, FALSE, status)
    \/ \E story_id \in StoryIdArgs, status \in UserStoryStatus \cup {NULL} :
          update_story(story_id, [status |-> status])
    \/ \E story_id \in StoryIdArgs, status \in TaskStatus :
          create_task(story_id, status, FALSE)
    \/ \E task_id \in TaskIdArgs, patch \in TaskPatches : update_task(task_id, patch)
    \/ \E task_id \in TaskIdArgs : delete_task(task_id)

SpecRollup == Init /\ [][RollupNext]_vars

(***************************************************************************)
(* Specification SpecSprint: the sprint handlers on an empty database.     *)
(***************************************************************************)
DateArgs == 0..MaxDate
SprintIdArgs == 1..(MaxSprints + 1)
SprintPatches ==
    {[start_date |-> d] : d \in DateArgs}
    \cup {[end_date |-> d] : d \in DateArgs}
    \cup {[status |-> "CLOSED", end_date |-> d] : d \in DateArgs}
    \cup {[start_date |-> d, end_date |-> e] : d \in {MaxDate}, e \in DateArgs}

SprintNext ==
    \/ \E start_date \in DateArgs, end_date \in DateArgs, status \in SprintStatus :
          create_sprint(start_date, end_date, status)
    \/ \E sprint_id \in SprintIdArgs, patch \in SprintPatches :
          update_sprint(sprint_id, patch)

SpecSprint == Init /\ [][SprintNext]_vars

(***************************************************************************)
(* Specification SpecSim: the clock, the snapshot recorder and the         *)
(* simulation driver on a board that create_sprint, create_story,          *)
(* create_task and update_story can have built.                            *)
(***************************************************************************)
SprintRow(status, start_date, end_date) ==
    [status |-> status, start_date |-> start_date, end_date |-> end_date]

StoryRow(sprint_id, story_points, status) ==
    [sprint_id |-> sprint_id, story_points |-> story_points, priority |-> 3,
     is_tech_debt |-> FALSE, status |-> status]

TaskRow(story_id, status) ==
    [story_id |-> story_id, status |-> status, is_tech_debt |-> FALSE,
     story_points |-> 1, assignee |-> "alice"]

SimSprintTables ==
    { <<>>,
      << SprintRow("CLOSED", 0, 1) >>,
      << SprintRow("CLOSED", 0, 1), SprintRow("ACTIVE", 1, 2) >>,
      << SprintRow("ACTIVE", 1, 2), SprintRow("ACTIVE", 0, 1) >> }

\* One story of i points in sprint i, PLANNED or DONE; a second story in the
\* last sprint, PLANNED or with the NULL status update_story can store; and a
\* last story in no sprint.
SimStoryTables(sp) ==
    { [i \in Ids(sp) |-> StoryRow(i, i, f[i])]
        \o << StoryRow(Len(sp), Len(sp) + 1, s),
              StoryRow(0, Len(sp) + 2, "PLANNED") >> :
      f \in [Ids(sp) -> {"PLANNED", "DONE"}], s \in {"PLANNED", NULL} }

\* One task, under the story of one of the sprints; no task when there is no
\* story.
SimTaskTables(sp, st) ==
    IF st = <<>> THEN { <<>> }
    ELSE { << TaskRow(i, s) >> : i \in Ids(sp), s \in {"TODO", "CODE_REVIEW"} }

SimInit ==
    /\ sprints \in SimSprintTables
    /\ stories \in IF sprints = <<>> THEN { <<>> } ELSE SimStoryTables(sprints)
    /\ tasks \in SimTaskTables(sprints, stories)
    /\ github_links = EmptyBag
    /\ snapshots = EmptyBag
    /\ SIMULATION_OFFSET_DAYS = 0
    /\ date_today = 0
    /\ captures = NoCaptures
    /\ advances = NoAdvances
    /\ last = NoRequest

AdvanceArgs == 0..MaxAdvance
RemainingArgs == (-1)..1

SimNext ==
    \/ \E days \in AdvanceArgs : simulate_advance_days(days)
    \/ \E remaining_days \in RemainingArgs : simulate_set_remaining_days(remaining_days)
    \/ scheduled_capture
    \/ \E seed_flag \in BOOLEAN : on_startup(seed_flag)

SpecSim == SimInit /\ [][SimNext]_vars

(***************************************************************************)
(* Specification SpecStep: the simulation driver on boards with several    *)
(* tasks.  simulate_progress runs once in each pass of the loop of         *)
(* simulate_advance_days, so a request for one day is one step and one     *)
(* capture.                                                                *)
(***************************************************************************)
StepSprintTables ==
    { << SprintRow("CLOSED", 0, 1) >>,
      << SprintRow("ACTIVE", 0, 1) >>,
      << SprintRow("ACTIVE", 1, 2), SprintRow("ACTIVE", 0, 1) >> }

\* One story of i points in sprint i, the last of them PLANNED or DONE.
StepStoryTables(sp) ==
    { [i \in Ids(sp) |-> StoryRow(i, i, IF i = Len(sp) THEN s ELSE "PLANNED")] :
      s \in {"PLANNED", "DONE"} }

\* Tasks of any status under any story; those of the last story are rows of
\* create_task or rows of ensure_tech_debt_task.
StepTaskRows(st) ==
    {TaskRow(i, s) : i \in Ids(st), s \in TaskStatus}
    \cup {[TechDebtTask(Len(st)) EXCEPT !.status = s] : s \in TaskStatus}

StepTaskTables(st) ==
    UNION { [1..n -> StepTaskRows(st)] : n \in 1..MaxTasks }

StepInit ==
    /\ sprints \in StepSprintTables
    /\ stories \in StepStoryTables(sprints)
    /\ tasks \in StepTaskTables(stories)
    /\ github_links = EmptyBag
    /\ snapshots = EmptyBag
    /\ SIMULATION_OFFSET_DAYS = 0
    /\ date_today = 0
    /\ captures = NoCaptures
    /\ advances = NoAdvances
    /\ last = NoRequest

StepNext ==
    \/ \E days \in AdvanceArgs : simulate_advance_days(days)
    \/ \E remaining_days \in RemainingArgs : simulate_set_remaining_days(remaining_days)

SpecStep == StepInit /\ [][StepNext]_vars

(***************************************************************************)
(* Specification SpecCapture: the scheduler's capture and the capture of   *)
(* set_remaining_days, interleaved statement by statement.                 *)
(***************************************************************************)
CaptureSprintTables ==
    { << SprintRow("ACTIVE", 0, 1) >>,
      << SprintRow("ACTIVE", 1, 2), SprintRow("ACTIVE", 0, 1) >>,
      << SprintRow("CLOSED", 0, 1), SprintRow("ACTIVE", 1, 2) >> }

CaptureInit ==
    /\ sprints \in CaptureSprintTables
    /\ stories \in StepStoryTables(sprints)
    /\ tasks = <<>>
    /\ github_links = EmptyBag
    /\ snapshots = EmptyBag
    /\ SIMULATION_OFFSET_DAYS = 0
    /\ date_today = 0
    /\ captures = NoCaptures
    /\ advances = NoAdvances
    /\ last = NoRequest

CaptureNext ==
    \/ scheduled_capture_begin
    \/ \E remaining_days \in 0..1 : set_remaining_days_begin(remaining_days)
    \/ \E c \in Callers : capture_sprint(c)
    \/ \E c \in Callers : capture_commit(c)
    \/ \E c \in Callers : capture_fail(c)

SpecCapture == CaptureInit /\ [][CaptureNext]_vars

(***************************************************************************)
(* Specification SpecBurndown: the burndown series of sprints whose        *)
(* snapshots the scheduler and set_remaining_days have recorded.           *)
(***************************************************************************)
BurndownSprintTables ==
    { << SprintRow("ACTIVE", 0, 0) >>,
      << SprintRow("CLOSED", 0, 1), SprintRow("ACTIVE", 0, 2) >>,
      << SprintRow("ACTIVE", 1, 2), SprintRow("ACTIVE", 0, 1) >> }

BurndownInit ==
    /\ sprints \in BurndownSprintTables
    /\ stories \in SimStoryTables(sprints)
    /\ tasks = <<>>
    /\ github_links = EmptyBag
    /\ snapshots = EmptyBag
    /\ SIMULATION_OFFSET_DAYS = 0
    /\ date_today = 0
    /\ captures = NoCaptures
    /\ advances = NoAdvances
    /\ last = NoRequest

BurndownNext ==
    \/ \E sprint_id \in SprintIdArgs : get_burndown(sprint_id)
    \/ \E remaining_days \in RemainingArgs : simulate_set_remaining_days(remaining_days)
    \/ scheduled_capture
    \/ \E status \in {"PLANNED", "DONE"} : update_story(1, [status |-> status])

SpecBurndown == BurndownInit /\ [][BurndownNext]_vars

(***************************************************************************)
(* Specification SpecWebhook: the webhook on a story whose tasks            *)
(* create_task, update_task and delete_task have left in any status (the   *)
(* story's status is the one sync_story_status gave it last).              *)
(***************************************************************************)
WebhookTaskTables ==
    UNION { [1..n -> {TaskRow(1, s) : s \in TaskStatus} \cup {Tombstone}] :
            n \in 1..MaxTasks }

WebhookInit ==
    /\ sprints = <<>>
    /\ tasks \in WebhookTaskTables
    /\ stories = sync_story_status(<< StoryRow(0, 1, "PLANNED") >>, tasks, 1)
    /\ github_links = EmptyBag
    /\ snapshots = EmptyBag
    /\ SIMULATION_OFFSET_DAYS = 0
    /\ date_today = 0
    /\ captures = NoCaptures
    /\ advances = NoAdvances
    /\ last = NoRequest

WebhookNext ==
    \E commit_refs \in RefArgs, pr_refs \in RefArgs :
        github_webhook(commit_refs, pr_refs)

SpecWebhook == WebhookInit /\ [][WebhookNext]_vars

(***************************************************************************)
(* Specification SpecClock: every operation of the service, on an empty    *)
(* database and on a board of one ACTIVE sprint with a story and a task;   *)
(* the step of the driver and the capture also run by themselves.          *)
(***************************************************************************)
ClockInit ==
    /\ \/ sprints = <<>> /\ stories = <<>> /\ tasks = <<>>
       \/ /\ sprints = << SprintRow("ACTIVE", 0, 1) >>
          /\ stories = << StoryRow(1, 1, "PLANNED") >>
          /\ tasks = << TaskRow(1, "TODO") >>
    /\ github_links = EmptyBag
    /\ snapshots = EmptyBag
    /\ SIMULATION_OFFSET_DAYS = 0
    /\ date_today = 0
    /\ captures = NoCaptures
    /\ advances = NoAdvances
    /\ last = NoRequest

ClockNext ==
    \/ create_sprint(0, 1, "CLOSED")
    \/ update_sprint(2, [start_date |-> 1])
    \/ create_story(0, 1, 3, FALSE, "PLANNED")
    \/ update_story(1, [status |-> "PLANNED"])
    \/ create_task(1, "TODO", FALSE)
    \/ update_task(1, [status |-> "TODO"])
    \/ delete_task(2)
    \/ github_webhook(<<>>, <<1>>)
    \/ get_burndown(1)
    \/ get_dashboard
    \/ scheduled_capture
    \/ \E remaining_days \in {-1, 0} : simulate_set_remaining_days(remaining_days)
    \/ \E days \in {0, 1} : simulate_advance_days(days)
    \/ simulate_progress_call

SpecClock == ClockInit /\ [][ClockNext]_vars

(***************************************************************************)
(* Specification SpecAdvance: one request of simulate_advance_days at a    *)
(* time, statement by statement.                                           *)
(***************************************************************************)
AdvanceInit ==
    /\ sprints \in CaptureSprintTables
    /\ stories \in StepStoryTables(sprints)
    /\ tasks \in StepTaskTables(stories)
    /\ github_links = EmptyBag
    /\ snapshots = EmptyBag
    /\ SIMULATION_OFFSET_DAYS = 0
    /\ date_today = 0
    /\ captures = NoCaptures
    /\ advances = NoAdvances
    /\ last = NoRequest

AdvanceNext ==
    \/ \E days \in AdvanceArgs : advance_days_begin("first", days)
    \/ advance_load("first")
    \/ advance_store("first")
    \/ advance_get_today("first")
    \/ progress_read("first")
    \/ progress_write("first")
    \/ advance_capture("first")
    \/ advance_return("first")

SpecAdvance == AdvanceInit /\ [][AdvanceNext]_vars

(***************************************************************************)
(* Specification SpecDriver: calls of simulate_progress on boards whose    *)
(* stories differ in sprint and priority.                                  *)
(***************************************************************************)
\* Stories of priority 1 or 2, or of the NULL priority update_story can
\* store, in any of the sprints or in none.
DriverStoryRows(sp) ==
    {[StoryRow(i, 1, "PLANNED") EXCEPT !.priority = p] :
        i \in 0..Len(sp), p \in {NullPriority, 1, 2}}

DriverStoryTables(sp) ==
    UNION { [1..n -> DriverStoryRows(sp)] : n \in 0..(MaxStories + 1) }

\* Tasks under any of the stories, not started or finished.
DriverTaskTables(st) ==
    UNION { [1..n -> {TaskRow(i, s) : i \in Ids(st), s \in {"TODO", "DONE"}}] :
            n \in 0..MaxTasks }

DriverInit ==
    /\ sprints \in CaptureSprintTables
    /\ stories \in DriverStoryTables(sprints)
    /\ tasks \in DriverTaskTables(stories)
    /\ github_links = EmptyBag
    /\ snapshots = EmptyBag
    /\ SIMULATION_OFFSET_DAYS = 0
    /\ date_today = 0
    /\ captures = NoCaptures
    /\ advances = NoAdvances
    /\ last = NoRequest

DriverNext == simulate_progress_call

SpecDriver == DriverInit /\ [][DriverNext]_vars

(***************************************************************************)
(* Specification SpecClose: captures on boards whose sprints update_sprint *)
(* closes between them.                                                    *)
(***************************************************************************)
CloseNext ==
    \/ scheduled_capture
    \/ \E remaining_days \in 0..1 : simulate_set_remaining_days(remaining_days)
    \/ \E sprint_id \in SprintIdArgs : update_sprint(sprint_id, [status |-> "CLOSED"])
    \/ update_story(1, [status |-> "DONE"])

SpecClose == CaptureInit /\ [][CloseNext]_vars

(***************************************************************************)
(* Specification SpecTasks: the task handlers and the webhook on a story   *)
(* with tasks, with ids that exist, ids of deleted tasks and unknown ids.  *)
(***************************************************************************)
TasksNext ==
    \/ \E story_id \in StoryIdArgs, status \in {"TODO", "DONE"} :
          create_task(story_id, status, FALSE)
    \/ \E task_id \in TaskIdArgs : update_task(task_id, [status |-> "IN_PROGRESS"])
    \/ \E task_id \in TaskIdArgs : delete_task(task_id)
    \/ \E commit_refs \in RefArgs, pr_refs \in RefArgs :
          github_webhook(commit_refs, pr_refs)

SpecTasks == WebhookInit /\ [][TasksNext]_vars

(***************************************************************************)
(* Specification SpecRace: two requests of simulate_advance_days in two    *)
(* threads of the pool, interleaved statement by statement.                *)
(***************************************************************************)
RaceInit ==
    /\ sprints = << SprintRow("ACTIVE", 0, 1) >>
    /\ stories \in StepStoryTables(sprints)
    /\ tasks \in UNION { [1..n -> {TaskRow(1, s) : s \in TaskStatus}] :
                         n \in 1..MaxTasks }
    /\ github_links = EmptyBag
    /\ snapshots = EmptyBag
    /\ SIMULATION_OFFSET_DAYS = 0
    /\ date_today = 0
    /\ captures = NoCaptures
    /\ advances = NoAdvances
    /\ last = NoRequest

RaceNext ==
    \E r \in Requests :
       \/ \E days \in AdvanceArgs : advance_days_begin(r, days)
       \/ advance_load(r)
       \/ advance_store(r)
       \/ advance_get_today(r)
       \/ progress_read(r)
       \/ progress_write(r)
       \/ advance_capture(r)
       \/ advance_return(r)

SpecRace == RaceInit /\ [][RaceNext]_vars

(***************************************************************************)
(* Specification SpecLive: simulate_progress called again and again, and   *)
(* nothing else.  A call is always possible, so the calls never stop       *)
(* (weak fairness of the step).  The boards are those the requests leave:  *)
(* tasks of any status, or of the NULL status that update_task stores for  *)
(* a payload carrying "status": null.                                      *)
(***************************************************************************)
LiveTaskRows(st) ==
    {TaskRow(i, s) : i \in Ids(st), s \in TaskStatus \cup {NULL}}

LiveTaskTables(st) ==
    UNION { [1..n -> LiveTaskRows(st)] : n \in 0..MaxTasks }

LiveInit ==
    /\ sprints \in CaptureSprintTables
    /\ stories \in StepStoryTables(sprints)
    /\ tasks \in LiveTaskTables(stories)
    /\ github_links = EmptyBag
    /\ snapshots = EmptyBag
    /\ SIMULATION_OFFSET_DAYS = 0
    /\ date_today = 0
    /\ captures = NoCaptures
    /\ advances = NoAdvances
    /\ last = NoRequest

LiveNext == simulate_progress_call

SpecLive == LiveInit /\ [][LiveNext]_vars /\ WF_vars(LiveNext)

(***************************************************************************)
(* Properties.                                                             *)
(***************************************************************************)
TaskStatusesOf(story_id) == {tasks[i].status : i \in story_tasks(tasks, story_id)}

AllDone(S) == \A x \in S : x = "DONE"
SomeStarted(S) == \E x \in S : x \in {"IN_PROGRESS", "CODE_REVIEW"}

\* What the rollup rule of the specification gives for a non-empty set of
\* task statuses.
Rollup(S) ==
    CASE AllDone(S) -> "DONE"
      [] ~AllDone(S) /\ SomeStarted(S) -> "ACTIVE"
      [] OTHER -> "PLANNED"

TaskHandlers == {"create_task", "update_task", "delete_task"}

\* C1: in every reachable state, every story that has at least one task has
\* the status the rollup of its tasks' statuses gives.
C1_StoryStatusIsRollup ==
    \A s \in Ids(stories) :
        story_tasks(tasks, s) # {} => stories[s].status = Rollup(TaskStatusesOf(s))

\* C2: after a handler has run sync_story_status on a story that has tasks,
\* the story is DONE iff all its tasks are DONE, ACTIVE iff not all are DONE
\* and one is IN_PROGRESS or CODE_REVIEW, and PLANNED otherwise, whatever its
\* status was before.
C2_RollupRule ==
    (last.op \in TaskHandlers /\ last.code = 200
        /\ story_tasks(tasks, last.id) # {})
    => LET S == TaskStatusesOf(last.id)
           status == stories[last.id].status
       IN  /\ status = "DONE" <=> AllDone(S)
           /\ status = "ACTIVE" <=> (~AllDone(S) /\ SomeStarted(S))
           /\ status = "PLANNED" <=> (~AllDone(S) /\ ~SomeStarted(S))

\* C2 witness: update_task has left a story with two tasks PLANNED that was
\* DONE before.
C2_Witness ==
    /\ last.op = "update_task" /\ last.code = 200
    /\ Cardinality(story_tasks(tasks, last.id)) = 2
    /\ last.pre_status = "DONE"
    /\ stories[last.id].status = "PLANNED"

\* C3: the rollup leaves a story without tasks as it is; after delete_task
\* has removed the last task of a story, the story has the status it had
\* before the deletion.
C3_EmptyStoryKeepsStatus ==
    /\ \A s \in Ids(stories) :
          story_tasks(tasks, s) = {} => sync_story_status(stories, tasks, s) = stories
    /\ (last.op = "delete_task" /\ last.code = 200
           /\ story_tasks(tasks, last.id) = {})
       => stories[last.id].status = last.pre_status

\* C3 witness: delete_task has removed the last task of an ACTIVE story.
C3_Witness ==
    /\ last.op = "delete_task" /\ last.code = 200
    /\ story_tasks(tasks, last.id) = {}
    /\ last.pre_status = "ACTIVE"
    /\ stories[last.id].status = "ACTIVE"

ActiveSprints == {i \in Ids(sprints) : sprints[i].status = "ACTIVE"}

\* The requests that end with a capture for the day get_today then gives.
CaptureRequests ==
    {"scheduled_capture", "advance_days", "set_remaining_days", "seed_demo_data"}

\* The story points of the first n stories that are in the sprint and not DONE.
RECURSIVE OpenPoints(_, _)
OpenPoints(sprint_id, n) ==
    IF n = 0 THEN 0
    ELSE OpenPoints(sprint_id, n - 1)
         + (IF stories[n].sprint_id = sprint_id /\ stories[n].status # "DONE"
            THEN stories[n].story_points ELSE 0)

\* The number of rows of the table for the sprint and the day.
RowCount(snaps, sprint_id, d) ==
    LET R == SnapshotRows(snaps, sprint_id, d)
    IN  SumOver([r \in R |-> CopiesIn(r, snaps)], R)

\* C4: in every reachable state there is at most one snapshot row for each
\* (sprint, date).
C4_OneSnapshotPerSprintAndDay ==
    \A r \in BagToSet(snapshots) :
        RowCount(snapshots, r.sprint_id, r.snapshot_date) = 1

\* C4 witness: set_remaining_days has moved the clock back onto a day that
\* already had a snapshot, and captured again.
C4_Witness ==
    /\ last.op = "set_remaining_days" /\ last.code = 200 /\ last.existed
    /\ \E r \in BagToSet(snapshots) : r.snapshot_date > get_today

\* C5: right after a capture for day d, every ACTIVE sprint has a snapshot for
\* d whose remaining_points is the sum of the story points of its stories
\* that are not DONE.
C5_SnapshotIsOpenPoints ==
    (last.op \in CaptureRequests /\ last.code = 200)
    => \A i \in ActiveSprints :
          /\ SnapshotRows(snapshots, i, get_today) # {}
          /\ \A r \in SnapshotRows(snapshots, i, get_today) :
                r.remaining_points = OpenPoints(i, Len(stories))

CaptureDays ==
    {r.snapshot_date : r \in BagToSet(snapshots)} \cup {get_today, get_today + 1}

\* C6: a capture for day d followed by a second capture for d, with sprints
\* and stories as they are, leaves the table as the first capture left it:
\* one row for each ACTIVE sprint and d.
C6_CaptureIdempotent ==
    \A d \in CaptureDays :
        \A once \in capture_burndown_snapshots(sprints, stories, snapshots, d) :
            /\ capture_burndown_snapshots(sprints, stories, once, d) = {once}
            /\ \A i \in ActiveSprints : RowCount(once, i, d) = 1

\* C6 witness: seed_demo_data has captured twice for the same day and left
\* one row, with the 30 points of the four demo stories.
C6_Witness ==
    /\ last.op = "seed_demo_data"
    /\ \E i \in ActiveSprints :
          snapshots = SetToBag({NewSnapshot(i, get_today, 30)})

\* C7: advance_days(n) with n > 0 leaves the offset, and so get_today, n
\* larger, answers n iterations, and leaves a snapshot for every ACTIVE
\* sprint and each of the n days after the day it started on.
C7_AdvanceDays ==
    [][(last'.op = "advance_days" /\ last'.code = 200)
       => /\ last'.arg > 0
          /\ SIMULATION_OFFSET_DAYS' = SIMULATION_OFFSET_DAYS + last'.arg
          /\ get_today' = get_today + last'.arg
          /\ last'.created = last'.arg
          /\ \A i \in ActiveSprints : \A k \in 1..last'.arg :
                SnapshotRows(snapshots', i, get_today + k) # {}]_vars

\* C7 witness: advance_days(2) has succeeded with a sprint ACTIVE, from an
\* offset other than 0.
C7_Witness ==
    /\ last.op = "advance_days" /\ last.code = 200 /\ last.arg = 2
    /\ ActiveSprints # {}
    /\ SIMULATION_OFFSET_DAYS # 2

\* C8: a successful set_remaining_days(t) leaves the offset at
\* (end_date - date.today()) - t for the sprint it read, whatever the offset
\* was, so that end_date - get_today is t; no task and no story changes status.
C8_SetRemainingDays ==
    [][(last'.op = "set_remaining_days" /\ last'.code = 200)
       => /\ last'.arg >= 0
          /\ last'.id \in ActiveSprints
          /\ SIMULATION_OFFSET_DAYS'
                = (sprints[last'.id].end_date - date_today) - last'.arg
          /\ sprints[last'.id].end_date - get_today' = last'.arg
          /\ Len(tasks') = Len(tasks) /\ Len(stories') = Len(stories)
          /\ \A i \in Ids(tasks) : tasks'[i].status = tasks[i].status
          /\ \A i \in Ids(stories) : stories'[i].status = stories[i].status]_vars

\* C8 witness: set_remaining_days has succeeded after midnight has passed and
\* has left a negative offset, on a board with a task.
C8_Witness ==
    /\ last.op = "set_remaining_days" /\ last.code = 200
    /\ date_today > 0
    /\ SIMULATION_OFFSET_DAYS < 0
    /\ LiveTasks(tasks) # {}

\* C9, strict reading: set_remaining_days(t), t >= 0, with no sprint or more than
\* one sprint ACTIVE answers NotFound and leaves the offset and the snapshots
\* as they are.
C9_NeedsExactlyOneActiveSprint ==
    [][(last'.op = "set_remaining_days" /\ last'.arg >= 0
           /\ Cardinality(ActiveSprints) # 1)
       => /\ last'.code = 404
          /\ UNCHANGED <<SIMULATION_OFFSET_DAYS, snapshots>>]_vars

\* C9, weak reading: set_remaining_days(t), t >= 0, answers NotFound and leaves
\* the offset and the snapshots as they are exactly when no sprint is ACTIVE;
\* with one or more ACTIVE it succeeds on an ACTIVE sprint of earliest
\* start_date.
C9_NeedsAnActiveSprint ==
    [][(last'.op = "set_remaining_days" /\ last'.arg >= 0)
       => IF ActiveSprints = {}
          THEN /\ last'.code = 404
               /\ UNCHANGED <<SIMULATION_OFFSET_DAYS, snapshots>>
          ELSE /\ last'.code = 200
               /\ last'.id \in ActiveSprints
               /\ \A j \in ActiveSprints :
                     sprints[last'.id].start_date <= sprints[j].start_date]_vars

\* C9 witness: set_remaining_days has answered NotFound on a database whose
\* only sprint is CLOSED.
C9_Witness ==
    /\ last.op = "set_remaining_days" /\ last.code = 404
    /\ sprints # <<>> /\ ActiveSprints = {}

\* C10: advance_days(days) with days <= 0 and set_remaining_days(t) with t < 0
\* are rejected and leave the offset and every table as they are.
C10_RejectedRequestsChangeNothing ==
    [][(\/ last'.op = "advance_days" /\ last'.arg <= 0
        \/ last'.op = "set_remaining_days" /\ last'.arg < 0)
       => /\ last'.code = 400
          /\ UNCHANGED <<db, SIMULATION_OFFSET_DAYS>>]_vars

\* C10 witness: advance_days(0) has been rejected on a database that holds
\* snapshots and an offset.
C10_Witness ==
    /\ last.op = "advance_days" /\ last.arg = 0 /\ last.code = 400
    /\ snapshots # EmptyBag
    /\ SIMULATION_OFFSET_DAYS # 0

\* C11: every stored sprint has end_date >= start_date; create_sprint and
\* update_sprint whose resulting row has end_date < start_date are rejected,
\* and a rejected request leaves every table, and so every field of the
\* sprint, as it was.
C11_SprintDatesOrdered ==
    [][/\ \A i \in Ids(sprints') : sprints'[i].end_date >= sprints'[i].start_date
       /\ \A op \in {"create_sprint", "update_sprint"} :
             (last'.op = op /\ last'.code = 400) => UNCHANGED db
       /\ (last'.op = "create_sprint" /\ last'.code = 200)
             => /\ Len(sprints') = Len(sprints) + 1
                /\ ~sprint_dates_rejected(sprints'[Len(sprints')])]_vars

\* C11 witness: update_sprint has been rejected for a sprint that is still
\* ACTIVE, after an earlier update had moved its start_date.
C11_Witness ==
    /\ last.op = "update_sprint" /\ last.code = 400
    /\ sprints[last.id].status = "ACTIVE"
    /\ sprints[last.id].start_date = MaxDate

\* A step: a successful advance_days request for one day.
OneStep == last'.op = "advance_days" /\ last'.code = 200 /\ last'.arg = 1

\* The tasks of the sprint that have the status.
SprintTasks(sprint_id, status) ==
    {i \in LiveTasks(tasks) : /\ tasks[i].status = status
                              /\ stories[tasks[i].story_id].sprint_id = sprint_id}

\* Of a set of tasks: the tech-debt task of lowest id if there is a tech-debt
\* task, the task of lowest id otherwise.
Preferred(C) ==
    LET D == IF \E i \in C : tasks[i].is_tech_debt
             THEN {i \in C : tasks[i].is_tech_debt} ELSE C
    IN  CHOOSE i \in D : \A j \in D : i <= j

Moved(task_id, status) == [tasks EXCEPT ![task_id].status = status]

Affected(story_id) ==
    \E i \in Ids(tasks') :
        /\ tasks'[i].story_id = story_id
        /\ i > Len(tasks) \/ tasks'[i] # tasks[i]

\* C13: after a step that moves or creates a task, the story of that task
\* has the status the rollup of its tasks gives; a DONE story that receives a
\* new TODO task is no longer DONE.
C13_StepRollsUp ==
    [][OneStep
       => \A s \in Ids(stories') :
             Affected(s)
             => stories'[s].status
                  = Rollup({tasks'[i].status : i \in story_tasks(tasks', s)})]_vars

Forward ==
    { <<"TODO", "IN_PROGRESS">>, <<"IN_PROGRESS", "CODE_REVIEW">>,
      <<"CODE_REVIEW", "DONE">> }

\* C14: a step with an ACTIVE sprint either moves exactly one task of the
\* sprint of earliest start_date one stage forward, or adds exactly one
\* task, and leaves every other task as it is; with no ACTIVE sprint it
\* leaves tasks and stories as they are.
C14_StepIsOneUnit ==
    [][OneStep
       => IF ActiveSprints = {}
          THEN tasks' = tasks /\ stories' = stories
          ELSE \E s \in first_active_sprints(sprints) :
                  \/ /\ Len(tasks') = Len(tasks)
                     /\ \E i \in LiveTasks(tasks) :
                           /\ stories[tasks[i].story_id].sprint_id = s
                           /\ <<tasks[i].status, tasks'[i].status>> \in Forward
                           /\ tasks' = Moved(i, tasks'[i].status)
                  \/ /\ Len(tasks') = Len(tasks) + 1
                     /\ SubSeq(tasks', 1, Len(tasks)) = tasks]_vars

\* C14 witness: a step has added a tech-debt task beside a DONE task.
C14_Witness ==
    /\ last.op = "advance_days" /\ last.code = 200 /\ last.arg = 1
    /\ SIMULATION_OFFSET_DAYS = 1
    /\ Len(tasks) = 2
    /\ tasks[1].status = "DONE" /\ ~tasks[1].is_tech_debt
    /\ tasks[2] = TechDebtTask(tasks[2].story_id)
    /\ \A r \in BagToSet(snapshots) : r.snapshot_date = 1

\* The story points of the stories of the sprint, other than the story, that
\* are not DONE after the step.
OtherOpenPoints(sprint_id, story_id) ==
    LET S == {x \in Ids(stories') : /\ x # story_id
                                    /\ stories'[x].sprint_id = sprint_id
                                    /\ stories'[x].status # "DONE"}
    IN  SumOver([x \in S |-> stories'[x].story_points], S)

\* The sprint's only story has one task, and the task is TODO.
SingleTodoStory(sprint_id) ==
    \E x \in Ids(stories) :
        /\ \A y \in Ids(stories) : stories[y].sprint_id = sprint_id <=> y = x
        /\ \E t \in LiveTasks(tasks) :
              story_tasks(tasks, x) = {t} /\ tasks[t].status = "TODO"

\* C15: a step that moves the last task of a story that was not DONE to DONE
\* leaves the story DONE, and the capture that follows records for the sprint
\* the points of its other stories that are not DONE; from a sprint whose
\* only story has a single TODO task, three steps leave a snapshot of 0.
C15_LastTaskDoneClosesStory ==
    [][/\ OneStep
          => \A i \in LiveTasks(tasks) :
                LET x == tasks[i].story_id
                    s == stories[x].sprint_id
                IN  (/\ tasks[i].status # "DONE" /\ tasks'[i].status = "DONE"
                     /\ \A j \in story_tasks(tasks', x) : tasks'[j].status = "DONE")
                    => /\ stories'[x].status = "DONE"
                       /\ SnapshotRows(snapshots', s, get_today') # {}
                       /\ \A r \in SnapshotRows(snapshots', s, get_today') :
                             r.remaining_points = OtherOpenPoints(s, x)
       /\ \A s \in first_active_sprints(sprints) :
             SingleTodoStory(s)
             => \A w \in advance_days_loop(sprints, date_today,
                           {[stories |-> stories, tasks |-> tasks,
                             snapshots |-> snapshots,
                             offset |-> SIMULATION_OFFSET_DAYS, created |-> 0]}, 3) :
                   /\ SnapshotRows(w.snapshots, s, get_today + 3) # {}
                   /\ \A r \in SnapshotRows(w.snapshots, s, get_today + 3) :
                         r.remaining_points = 0]_vars

\* C15 witness: the third step on a sprint whose only story has a single
\* task has moved the task to DONE and the story to DONE, and the snapshot
\* of the day is 0, while the snapshot the second step left is not.
C15_Witness ==
    /\ last.op = "advance_days" /\ last.code = 200 /\ last.arg = 1
    /\ Len(sprints) = 1 /\ Len(tasks) = 1
    /\ tasks[1].status = "DONE" /\ stories[1].status = "DONE"
    /\ SnapshotRows(snapshots, 1, get_today)
          = {NewSnapshot(1, get_today, 0)}
    /\ \E r \in SnapshotRows(snapshots, 1, get_today + 1) : r.remaining_points > 0

\* C16: a capture in which a persistence error occurs leaves the snapshot
\* table as it was when the capture began, whatever it had written for any
\* sprint, and returns to its caller; no write of a capture is in the table
\* before its commit.
C16_FailedCaptureLeavesNothing ==
    [][/\ last'.op = "capture_fail"
          => /\ snapshots' = snapshots
             /\ last'.code = 200
             /\ \A c \in Callers :
                   captures'[c] # captures[c] => captures'[c] = IdleCapture
       /\ last'.op = "capture_sprint" => snapshots' = snapshots]_vars

\* C16 witness: a capture has failed with the writes for two sprints pending,
\* and the table holds no row.
C16_Witness ==
    /\ last.op = "capture_fail" /\ last.created = 2
    /\ snapshots = EmptyBag
    /\ captures = NoCaptures

\* C17: when no capture is in progress, the table holds one row for each
\* (sprint, date) that has a row, however the scheduler's capture and the
\* request's capture were interleaved.
C17_InterleavedCapturesOneRow ==
    captures = NoCaptures
    => \A r \in BagToSet(snapshots) :
          RowCount(snapshots, r.sprint_id, r.snapshot_date) = 1

\* A burndown series has been returned for sprint last.id.
BurndownServed == last.op = "get_burndown" /\ last.code = 200

\* The story points of all the stories of the sprint.
TotalPoints(sprint_id) ==
    LET S == {x \in Ids(stories) : stories[x].sprint_id = sprint_id}
    IN  SumOver([x \in S |-> stories[x].story_points], S)

SprintSnapshots(sprint_id) ==
    {r \in BagToSet(snapshots) : r.sprint_id = sprint_id}

\* C18: the series of a sprint has max(1, end - start + 1) entries, labelled
\* Day 1, Day 2, ... in order; the first ideal is the total points, the last
\* ideal is 0 when there is more than one entry, and ideal never grows.
C18_SeriesShape ==
    BurndownServed
    => LET body == last.body
           n == Max(1, (sprints[last.id].end_date - sprints[last.id].start_date) + 1)
       IN  /\ Len(body) = n
           /\ \A k \in 1..n : body[k].day = k
           /\ body[1].ideal.num = TotalPoints(last.id) * body[1].ideal.den
           /\ n > 1 => body[n].ideal.num = 0
           /\ \A k \in 1..(n - 1) :
                 body[k + 1].ideal.num * body[k].ideal.den
                    <= body[k].ideal.num * body[k + 1].ideal.den

\* C18 witness: a series of three days for a sprint with points and a
\* snapshot.
C18_Witness ==
    /\ BurndownServed
    /\ Len(last.body) = 3
    /\ TotalPoints(last.id) > 0
    /\ SprintSnapshots(last.id) # {}
    /\ last.body[2].ideal.num > 0

\* The snapshots of the sprint dated on or before the day.
SnapshotsUpTo(sprint_id, d) ==
    {r \in SprintSnapshots(sprint_id) : r.snapshot_date <= d}

\* C19: for each day of the series, actual is the remaining_points of the
\* latest snapshot of the sprint dated on or before that day, snapshots from
\* before start_date included, and the total points when there is no such
\* snapshot.  (The last entry of a sprint without snapshots is the subject of
\* C20.)
C19_ActualCarriesForward ==
    (BurndownServed /\ SprintSnapshots(last.id) # {})
    => \A k \in 1..Len(last.body) :
          LET d == sprints[last.id].start_date + (k - 1)
              S == SnapshotsUpTo(last.id, d)
          IN  IF S = {}
              THEN last.body[k].actual = TotalPoints(last.id)
              ELSE \E r \in S :
                      /\ \A q \in S : q.snapshot_date <= r.snapshot_date
                      /\ last.body[k].actual = r.remaining_points

\* The value carried to entry k from the snapshots dated from start_date on.
RECURSIVE Carried(_, _)
Carried(sprint_id, k) ==
    IF k = 0 THEN {TotalPoints(sprint_id)}
    ELSE LET R == {r \in SprintSnapshots(sprint_id) :
                      r.snapshot_date = sprints[sprint_id].start_date + (k - 1)}
         IN  IF R = {} THEN Carried(sprint_id, k - 1)
             ELSE {r.remaining_points : r \in R}

\* C20: the series of a sprint without snapshots has the total points as
\* actual of every entry but the last, and as actual of the last the sum of
\* the points of the sprint's stories that are not DONE; the series of a
\* sprint with a snapshot has no entry replaced by that sum.
C20_LiveFigureOnlyWithoutSnapshots ==
    BurndownServed
    => LET body == last.body
           n == Len(body)
       IN  IF SprintSnapshots(last.id) = {}
           THEN /\ \A k \in 1..(n - 1) : body[k].actual = TotalPoints(last.id)
                /\ body[n].actual = OpenPoints(last.id, Len(stories))
           ELSE \A k \in 1..n : body[k].actual \in Carried(last.id, k)

Refs(refs) == {refs[k] : k \in DOMAIN refs}

\* C21: a webhook leaves every task the pull request's title and body refer
\* to in CODE_REVIEW, whatever its status was, and every other task (those
\* only commit messages refer to, and those nothing refers to) with the
\* status it had; no task appears or disappears.
C21_WebhookStatusEffect ==
    [][\A commit_refs \in RefArgs, pr_refs \in RefArgs :
          github_webhook(commit_refs, pr_refs) =>
             /\ Len(tasks') = Len(tasks)
             /\ LiveTasks(tasks') = LiveTasks(tasks)
             /\ \A i \in LiveTasks(tasks) :
                   tasks'[i].status = IF i \in Refs(pr_refs) THEN "CODE_REVIEW"
                                      ELSE tasks[i].status]_vars

\* A webhook has just linked two tasks: one by a pull request, now in
\* CODE_REVIEW under a story that is still DONE (so the task was DONE), the
\* other by a commit and still DONE.
C21_Witness ==
    /\ last.op = "github_webhook"
    /\ last.created = 2
    /\ \E i, j \in LiveTasks(tasks) :
          /\ i # j
          /\ tasks[i].status = "CODE_REVIEW"
          /\ BagIn(NewLink(i, "pr"), github_links)
          /\ ~BagIn(NewLink(i, "commit"), github_links)
          /\ stories[tasks[i].story_id].status = "DONE"
          /\ tasks[j].status = "DONE"
          /\ BagIn(NewLink(j, "commit"), github_links)
          /\ ~BagIn(NewLink(j, "pr"), github_links)

ClockRequests == {"advance_days", "set_remaining_days"}

\* C22: SIMULATION_OFFSET_DAYS changes only in a request of advance_days or
\* set_remaining_days that is answered 200; the sprint, story and task
\* handlers, the webhook, a capture, a step of the driver, and the burndown
\* and dashboard reads leave it as it was.
C22_OnlyClockRequestsMoveOffset ==
    [][SIMULATION_OFFSET_DAYS' # SIMULATION_OFFSET_DAYS
          => last'.op \in ClockRequests /\ last'.code = 200]_vars

\* The offset is 2, and the request just served is a capture that wrote a row
\* for the simulated day.
C22_Witness ==
    /\ SIMULATION_OFFSET_DAYS = 2
    /\ last.op = "scheduled_capture"
    /\ \E i \in ActiveSprints : SnapshotRows(snapshots, i, get_today) # {}
    /\ \E i \in LiveTasks(tasks) : tasks[i].status = "DONE"
    /\ github_links # EmptyBag

\* C23: a request of update_story that is answered 200 for a story with at
\* least one task leaves the story with the status the rollup rule gives for
\* its tasks.
C23_StoryStatusNotSettable ==
    [][(/\ last'.op = "update_story" /\ last'.code = 200
        /\ story_tasks(tasks, last'.id) # {})
          => stories'[last'.id].status = Rollup(TaskStatusesOf(last'.id))]_vars

\* The snapshot rows that are not for the sprint-and-day pairs in P.
RowsOutside(snaps, P) ==
    {r \in BagToSet(snaps) : <<r.sprint_id, r.snapshot_date>> \notin P}

\* C24: each pass of the loop of advance_days increments the offset, then
\* runs the step, then captures: the store of the offset is followed by the
\* reading of the date, that by the step, that by the capture; the step runs
\* with the offset already incremented; the capture is for the day get_today()
\* gives at that moment and records, for every ACTIVE sprint, the open points
\* of the story statuses the step has just left; and the step and the
\* capture leave the rows of the other days as they are.
C24_IncrementStepCapture ==
    [][LET a == advances["first"]
           b == advances'["first"]
       IN  /\ (b.pc # a.pc /\ b.pc = "today") => last'.op = "advance_store"
           /\ (b.pc # a.pc /\ b.pc = "step") => last'.op = "advance_get_today"
           /\ (b.pc # a.pc /\ b.pc = "write") => last'.op = "progress_read"
           /\ (b.pc # a.pc /\ b.pc = "capture") => last'.op = "progress_write"
           /\ last'.op = "advance_store"
                 => SIMULATION_OFFSET_DAYS' = SIMULATION_OFFSET_DAYS + 1
           /\ last'.op = "progress_write"
                 => /\ a.simulate_date = get_today
                    /\ SIMULATION_OFFSET_DAYS = a.loaded + 1
                    /\ snapshots' = snapshots
           /\ last'.op = "advance_capture"
                 => /\ a.pc = "capture"
                    /\ a.simulate_date = get_today
                    /\ b.created = a.created + 1
                    /\ stories' = stories /\ tasks' = tasks
                    /\ SIMULATION_OFFSET_DAYS' = SIMULATION_OFFSET_DAYS
                    /\ \A i \in ActiveSprints :
                          /\ SnapshotRows(snapshots', i, get_today) # {}
                          /\ \A r \in SnapshotRows(snapshots', i, get_today) :
                                r.remaining_points = OpenPoints(i, Len(stories))
                    /\ LET P == {<<i, get_today>> : i \in ActiveSprints}
                       IN  /\ RowsOutside(snapshots', P) = RowsOutside(snapshots, P)
                           /\ \A r \in RowsOutside(snapshots, P) :
                                 CopiesIn(r, snapshots') = CopiesIn(r, snapshots)]_vars

\* The second pass of a request has just captured: the sprint's row for day 1
\* holds the points that were open after the first step, and its row for
\* day 2 holds 0, the second step having closed the story.
C24_Witness ==
    /\ last.op = "advance_capture"
    /\ advances["first"].created = 2
    /\ SIMULATION_OFFSET_DAYS = 2
    /\ \E i \in ActiveSprints :
          /\ \E r \in SnapshotRows(snapshots, i, 1) : r.remaining_points > 0
          /\ \E r \in SnapshotRows(snapshots, i, 2) : r.remaining_points = 0


StepServed == last'.op = "simulate_progress"

\* The tasks of the sprint that are TODO, IN_PROGRESS or CODE_REVIEW.
Actionable(sprint_id) ==
    SprintTasks(sprint_id, "TODO") \cup SprintTasks(sprint_id, "IN_PROGRESS")
        \cup SprintTasks(sprint_id, "CODE_REVIEW")

SprintStories(sprint_id) == {i \in Ids(stories) : stories[i].sprint_id = sprint_id}

\* The stories of the sprint that have a priority number.
Numbered(sprint_id) ==
    {i \in SprintStories(sprint_id) : stories[i].priority # NullPriority}

\* C25: a step on a board whose first ACTIVE sprint has no TODO, IN_PROGRESS
\* or CODE_REVIEW task adds exactly one task (TODO, 2 points, tech debt, no
\* assignee) and changes no other task and no existing story; the task goes
\* under the story of the sprint with the lowest priority number, the lowest
\* id among equals, and then no story is added; when the sprint has no story,
\* one story is added first (5 points, priority 1, tech debt, in that sprint)
\* and the task goes under it.
C25_TechDebtTaskSynthesized ==
    [][StepServed =>
        \A s \in first_active_sprints(sprints) :
           Actionable(s) = {} =>
              LET new == tasks'[Len(tasks')]
              IN  /\ Len(tasks') = Len(tasks) + 1
                  /\ SubSeq(tasks', 1, Len(tasks)) = tasks
                  /\ new.status = "TODO" /\ new.story_points = 2
                  /\ new.is_tech_debt /\ new.assignee = NULL
                  /\ SubSeq(stories', 1, Len(stories)) = stories
                  /\ IF SprintStories(s) # {}
                     THEN /\ stories' = stories
                          /\ new.story_id \in SprintStories(s)
                          /\ Numbered(s) # {} => new.story_id \in Numbered(s)
                          /\ \A j \in Numbered(s) :
                                \/ stories[new.story_id].priority < stories[j].priority
                                \/ /\ stories[new.story_id].priority = stories[j].priority
                                   /\ new.story_id <= j
                     ELSE /\ Len(stories') = Len(stories) + 1
                          /\ new.story_id = Len(stories')
                          /\ stories'[Len(stories')].sprint_id = s
                          /\ stories'[Len(stories')].story_points = 5
                          /\ stories'[Len(stories')].priority = 1
                          /\ stories'[Len(stories')].is_tech_debt]_vars

\* C26: a capture (the scheduler's, or the one set_remaining_days makes)
\* changes no snapshot row other than those of the sprints that are ACTIVE
\* for the day it captures: the rows of CLOSED sprints, and the rows of any
\* sprint for another day, are in the table after it as they were before.
C26_CaptureTouchesActiveSprintsOnly ==
    [][(last'.op \in {"scheduled_capture", "set_remaining_days"} /\ last'.code = 200)
          => LET d == get_today_at(date_today', SIMULATION_OFFSET_DAYS')
                 P == {<<i, d>> : i \in ActiveSprints}
             IN  /\ RowsOutside(snapshots', P) = RowsOutside(snapshots, P)
                 /\ \A r \in RowsOutside(snapshots, P) :
                       CopiesIn(r, snapshots') = CopiesIn(r, snapshots)
                 /\ \A i \in Ids(sprints) \ ActiveSprints :
                       SnapshotRows(snapshots', i, d) = SnapshotRows(snapshots, i, d)]_vars

\* The scheduler has just captured: an ACTIVE sprint has a row for the day, a
\* CLOSED sprint has a row of an earlier day and none for this day.
C26_Witness ==
    /\ last.op = "scheduled_capture"
    /\ \E j \in ActiveSprints : SnapshotRows(snapshots, j, get_today) # {}
    /\ \E i \in Ids(sprints) \ ActiveSprints :
          /\ SnapshotRows(snapshots, i, get_today) = {}
          /\ \E r \in BagToSet(snapshots) :
                r.sprint_id = i /\ r.snapshot_date < get_today

\* C27: create_task for a story id that no story has, and update_task and
\* delete_task for a task id that no task has (never given, or of a deleted
\* task), are answered 404 and leave the tasks, the stories and the links as
\* they were.
C27_UnknownIdsChangeNothing ==
    [][/\ \A story_id \in StoryIdArgs \ Ids(stories), status \in TaskStatus :
             create_task(story_id, status, FALSE)
                => /\ last'.code = 404
                   /\ UNCHANGED <<tasks, stories, github_links>>
       /\ \A task_id \in TaskIdArgs \ LiveTasks(tasks), patch \in TaskPatches :
             update_task(task_id, patch)
                => /\ last'.code = 404
                   /\ UNCHANGED <<tasks, stories, github_links>>
       /\ \A task_id \in TaskIdArgs \ LiveTasks(tasks) :
             delete_task(task_id)
                => /\ last'.code = 404
                   /\ UNCHANGED <<tasks, stories, github_links>>]_vars

\* delete_task has just been refused for the id of a deleted task, with a
\* link and a live task in the tables.
C27_Witness ==
    /\ last.op = "delete_task" /\ last.code = 404
    /\ last.arg \in Ids(tasks) /\ tasks[last.arg] = Tombstone
    /\ LiveTasks(tasks) # {}
    /\ github_links # EmptyBag

\* The status a task is in before a step moves it to the status.
StatusBefore(status) ==
    CASE status = "DONE" -> "CODE_REVIEW"
      [] status = "CODE_REVIEW" -> "IN_PROGRESS"
      [] OTHER -> "TODO"

\* C28: two requests advance_days(a) and advance_days(b) whose statements
\* interleave leave the offset, 0 at the start, at a + b once both have
\* returned; and every write of a step moves its task from the status the
\* step read, so that no transition of a task is applied by two steps.
C28_ConcurrentAdvancesAddUp ==
    [][/\ (\A r \in Requests : advances'[r].pc = "done")
             => SIMULATION_OFFSET_DAYS'
                   = advances'["first"].days + advances'["second"].days
       /\ \A r \in Requests :
             (/\ last'.op = "progress_write"
              /\ advances[r].pc = "write" /\ advances'[r].pc = "capture"
              /\ advances[r].plan.kind = "move")
                => tasks[advances[r].plan.task].status
                      = StatusBefore(advances[r].plan.status)]_vars


\* The tasks that exist in the sprint, whatever their status.
TasksOfSprint(sprint_id) ==
    {i \in LiveTasks(tasks) : stories[tasks[i].story_id].sprint_id = sprint_id}

\* The tasks of the sprint the step serves (the first ACTIVE one).
InActiveSprint(i) ==
    \E s \in first_active_sprints(sprints) : i \in TasksOfSprint(s)

\* C29: when simulate_progress is called again and again and nothing else
\* happens, every task that exists in the first ACTIVE sprint is DONE at some
\* later time; and a call adds a task only when every task of that sprint is
\* DONE (a sprint without tasks included).
C29_EveryTaskReachesDone ==
    /\ \A i \in 1..MaxTasks :
          InActiveSprint(i) ~> (InActiveSprint(i) /\ tasks[i].status = "DONE")
    /\ [][(StepServed /\ Len(tasks') > Len(tasks)) =>
            \A s \in first_active_sprints(sprints) :
               \A i \in TasksOfSprint(s) : tasks[i].status = "DONE"]_vars


\* The stories that are not in the sprint the step serves: those of a later
\* ACTIVE sprint, of a CLOSED sprint, and of no sprint.
StoriesOutside ==
    {i \in Ids(stories) : stories[i].sprint_id \notin first_active_sprints(sprints)}

\* C30: a step leaves every story outside the first ACTIVE sprint, and every
\* task under such a story, as it was; no row disappears, and a row it adds
\* belongs to the first ACTIVE sprint.
C30_StepTouchesFirstActiveSprintOnly ==
    [][StepServed =>
        /\ Len(stories') >= Len(stories) /\ Len(tasks') >= Len(tasks)
        /\ \A i \in StoriesOutside : stories'[i] = stories[i]
        /\ \A i \in Ids(tasks) :
              (tasks[i] = Tombstone \/ tasks[i].story_id \in StoriesOutside)
                 => tasks'[i] = tasks[i]
        /\ \A i \in Ids(stories') \ Ids(stories) :
              stories'[i].sprint_id \in first_active_sprints(sprints)
        /\ \A i \in Ids(tasks') \ Ids(tasks) :
              stories'[tasks'[i].story_id].sprint_id
                 \in first_active_sprints(sprints)]_vars

\* A step has moved a task of the first ACTIVE sprint while a task of a later
\* ACTIVE sprint, not started, is on the board.
C30_Witness ==
    /\ last.op = "simulate_progress"
    /\ Len(sprints) = 2 /\ ActiveSprints = {1, 2}
    /\ \E i \in Ids(tasks) :
          /\ tasks[i].status = "IN_PROGRESS"
          /\ stories[tasks[i].story_id].sprint_id \in first_active_sprints(sprints)
    /\ \E i \in Ids(tasks) :
          /\ tasks[i].status = "TODO"
          /\ stories[tasks[i].story_id].sprint_id \in ActiveSprints
          /\ stories[tasks[i].story_id].sprint_id \notin first_active_sprints(sprints)

====
